---- MODULE Spec2Model ----
(***************************************************************************)
(* Moozhak CLI: the interactive session loop, the command dispatcher, the  *)
(* command registry, the settings schema and the session log.              *)
(* JavaScript strings are TLA+ strings; null and undefined are the two     *)
(* sentinel strings Null and Undefined; a JavaScript number is a record    *)
(* [k, v] (see ParseInt).                                                  *)
(***************************************************************************)
EXTENDS Integers, Sequences, FiniteSets, TLC

VARIABLES
  sessionFlags,   \* the Session Flags record owned by startSession
  dirs,           \* the directories under dist/ that exist
  logExists,      \* whether the session's log file exists
  logContent,     \* the entries of the log file, header first
  pc,             \* "prompt" | "exited" | "crashed"
  exitCode,       \* the process's exit code once pc # "prompt", else -1
  console,        \* what the last loop iteration printed
  last,           \* what the last loop iteration did
  steps,          \* loop iterations so far
  fcArg,          \* findCommand: the argument of the last direct call
  fcRes,          \* findCommand: its result
  call            \* the last direct call of another function: [fn, ..., res]

vars == <<sessionFlags, dirs, logExists, logContent, pc, exitCode, console,
          last, steps, fcArg, fcRes, call>>

sessionVars == <<sessionFlags, dirs, logExists, logContent, pc, exitCode,
                 console, last, steps>>

pureVars == <<fcArg, fcRes, call>>

\* no direct call yet
NoCall == [fn |-> "none"]

Null == "<null>"

Undefined == "<undefined>"

-----------------------------------------------------------------------------
(* Bounds *)

MaxSteps == 2

\* the most words in a line given to parseInput directly
MaxWords == 3

\* the most MusicBrainz requests in one behaviour
MaxRequests == 3

-----------------------------------------------------------------------------
(* JavaScript string primitives *)

Chr(s, i) == SubSeq(s, i, i)

UpperChars == "ABCDEFGHIJKLMNOPQRSTUVWXYZ"

LowerChars == "abcdefghijklmnopqrstuvwxyz"

ToLowerChar(c) ==
  IF \E i \in 1..26 : Chr(UpperChars, i) = c
  THEN Chr(LowerChars, CHOOSE i \in 1..26 : Chr(UpperChars, i) = c)
  ELSE c

ToUpperChar(c) ==
  IF \E i \in 1..26 : Chr(LowerChars, i) = c
  THEN Chr(UpperChars, CHOOSE i \in 1..26 : Chr(LowerChars, i) = c)
  ELSE c

\* s.toLowerCase(), character by character (by halves: long strings)
RECURSIVE ToLowerCase(_)
ToLowerCase(s) ==
  IF Len(s) = 0 THEN ""
  ELSE IF Len(s) = 1 THEN ToLowerChar(s)
  ELSE ToLowerCase(SubSeq(s, 1, Len(s) \div 2))
       \o ToLowerCase(SubSeq(s, (Len(s) \div 2) + 1, Len(s)))

IsSpace(c) == c \in {" ", "\t"}

\* the least index j in i..Len(s) whose character is in set, Len(s)+1 if none
FirstIn(s, i, set) ==
  CHOOSE j \in i..(Len(s) + 1) :
    /\ j = Len(s) + 1 \/ Chr(s, j) \in set
    /\ \A k \in i..(j - 1) : Chr(s, k) \notin set

\* the least index j in i..Len(s) whose character is not in set, Len(s)+1 if none
FirstNotIn(s, i, set) ==
  CHOOSE j \in i..(Len(s) + 1) :
    /\ j = Len(s) + 1 \/ Chr(s, j) \notin set
    /\ \A k \in i..(j - 1) : Chr(s, k) \in set

Spaces == {" ", "\t"}

TrimStart(s) == SubSeq(s, FirstNotIn(s, 1, Spaces), Len(s))

TrimEnd(s) ==
  LET e == CHOOSE j \in 0..Len(s) :
             /\ j = 0 \/ ~IsSpace(Chr(s, j))
             /\ \A k \in (j + 1)..Len(s) : IsSpace(Chr(s, k))
  IN  SubSeq(s, 1, e)

Trim(s) == TrimEnd(TrimStart(s))

StartsWith(s, p) == Len(s) >= Len(p) /\ SubSeq(s, 1, Len(p)) = p

\* the JavaScript truthiness of a string-or-null-or-undefined value
Falsy(v) == v \in {"", Null, Undefined}

-----------------------------------------------------------------------------
(* The tokenizer: trimmed.match(/(?:[^\s"]+|"[^"]*")+/g)                    *)

Quote == "\""

\* index of the first double quote at or after i, 0 if there is none
NextQuote(s, i) ==
  IF FirstIn(s, i, {Quote}) > Len(s) THEN 0 ELSE FirstIn(s, i, {Quote})

\* one match of the pattern anchored at i: the index after its last character
\* (i itself when the pattern does not match at i).  Each repetition of the
\* group takes a closed quoted span or a longest run of other characters.
RECURSIVE MatchEnd(_, _)
MatchEnd(s, i) ==
  IF i > Len(s) THEN i
  ELSE IF Chr(s, i) = Quote
       THEN IF NextQuote(s, i + 1) = 0 THEN i
            ELSE MatchEnd(s, NextQuote(s, i + 1) + 1)
       ELSE IF IsSpace(Chr(s, i)) THEN i
            ELSE MatchEnd(s, FirstIn(s, i, Spaces \cup {Quote}))

\* all matches, left to right, scanning on from the end of each match
RECURSIVE MatchAll(_, _)
MatchAll(s, i) ==
  IF i > Len(s) THEN <<>>
  ELSE IF MatchEnd(s, i) = i THEN MatchAll(s, i + 1)
       ELSE <<SubSeq(s, i, MatchEnd(s, i) - 1)>> \o MatchAll(s, MatchEnd(s, i))

\* arg.replace(/^"|"$/g, '')
StripQuotes(a) ==
  LET b == IF a # "" /\ Chr(a, 1) = Quote THEN SubSeq(a, 2, Len(a)) ELSE a
  IN  IF b # "" /\ Chr(b, Len(b)) = Quote THEN SubSeq(b, 1, Len(b) - 1) ELSE b

parseInput(input) ==
  LET trimmed == Trim(input)
      parts   == MatchAll(trimmed, 1)
  IN  IF trimmed = "" THEN [command |-> "", args |-> <<>>]
      ELSE [command |-> IF parts = <<>> THEN "" ELSE ToLowerCase(parts[1]),
            args    |-> [k \in 1..(Len(parts) - 1) |-> StripQuotes(parts[k + 1])]]

-----------------------------------------------------------------------------
(* The command registry *)

\* the command list with exit's alias q given to help as well
commandListSharedAlias == <<
  [name |-> "search",   aliases |-> <<"s">>,         minArgs |-> 0,
   usage |-> "search <query>",       handler |-> "search"],
  [name |-> "tracks",   aliases |-> <<"t">>,         minArgs |-> 1,
   usage |-> "tracks [type] <id>",   handler |-> "tracks"],
  [name |-> "settings", aliases |-> <<>>,            minArgs |-> 0,
   usage |-> "settings",             handler |-> "settings"],
  [name |-> "set",      aliases |-> <<>>,            minArgs |-> 0,
   usage |-> "set [option] [value]", handler |-> "set"],
  [name |-> "clean",    aliases |-> <<>>,            minArgs |-> 0,
   usage |-> "clean",                handler |-> "clean"],
  [name |-> "help",     aliases |-> <<"?", "h", "q">>, minArgs |-> 0,
   usage |-> "help",                 handler |-> "help"],
  [name |-> "exit",     aliases |-> <<"quit", "q">>, minArgs |-> 0,
   usage |-> "exit",                 handler |-> "exit"] >>

commandList == <<
  [name |-> "search",   aliases |-> <<"s">>,         minArgs |-> 0,
   usage |-> "search <query>",       handler |-> "search"],
  [name |-> "tracks",   aliases |-> <<"t">>,         minArgs |-> 1,
   usage |-> "tracks [type] <id>",   handler |-> "tracks"],
  [name |-> "settings", aliases |-> <<>>,            minArgs |-> 0,
   usage |-> "settings",             handler |-> "settings"],
  [name |-> "set",      aliases |-> <<>>,            minArgs |-> 0,
   usage |-> "set [option] [value]", handler |-> "set"],
  [name |-> "clean",    aliases |-> <<>>,            minArgs |-> 0,
   usage |-> "clean",                handler |-> "clean"],
  [name |-> "help",     aliases |-> <<"?", "h">>,    minArgs |-> 0,
   usage |-> "help",                 handler |-> "help"],
  [name |-> "exit",     aliases |-> <<"quit", "q">>, minArgs |-> 0,
   usage |-> "exit",                 handler |-> "exit"] >>

\* findCommand's "null"
NoCommand ==
  [name |-> Null, aliases |-> <<>>, minArgs |-> 0, usage |-> Null,
   handler |-> Null]

\* The keys a plain object inherits from Object.prototype with a truthy value
\* and an all-lower-case name: commands[lower] finds them as it finds a
\* registered name, and the spread of such a value copies no field.
InheritedKeys == {"constructor", "__proto__"}

Includes(seq, x) == \E i \in 1..Len(seq) : seq[i] = x

\* findCommand from the lookup on, lower the lower-cased token
Lookup(lower) ==
      IF \E i \in 1..Len(commandList) : commandList[i].name = lower
      THEN commandList[CHOOSE i \in 1..Len(commandList) :
                         commandList[i].name = lower]
      ELSE IF lower \in InheritedKeys
      THEN [name |-> lower, aliases |-> <<>>, minArgs |-> 0,
            usage |-> Undefined, handler |-> Undefined]
      ELSE IF \E i \in 1..Len(commandList) : Includes(commandList[i].aliases, lower)
      THEN commandList[CHOOSE i \in 1..Len(commandList) :
                         /\ Includes(commandList[i].aliases, lower)
                         /\ \A j \in 1..(i - 1) :
                              ~Includes(commandList[j].aliases, lower)]
      ELSE NoCommand

findCommand(name) == Lookup(ToLowerCase(name))

-----------------------------------------------------------------------------
(* JavaScript numbers as parseInt produces them.                           *)
(*   [k |-> "int", v |-> n, d |-> ""]   an integer of at most 9 digits     *)
(*   [k |-> "big", v |-> +-n, d |-> ds] a finite integer of n > 9 digits,  *)
(*                                      ds its decimal digits, v its sign  *)
(*                                      times n                            *)
(*   [k |-> "inf", v |-> +-1, d |-> ""] +-Infinity                         *)
(*   [k |-> "nan", v |-> 0, d |-> ""]   NaN                                *)

Digits == "0123456789"

IsDigit(c) == \E i \in 1..10 : Chr(Digits, i) = c

DigitVal(c) == (CHOOSE i \in 1..10 : Chr(Digits, i) = c) - 1

NaN == [k |-> "nan", v |-> 0, d |-> ""]

Int32(n) == [k |-> "int", v |-> n, d |-> ""]

DigitSet == {Chr(Digits, i) : i \in 1..10}

\* the length of the run of digits that starts s
DigitRun(s) == FirstNotIn(s, 1, DigitSet) - 1

StripZeros(s) == SubSeq(s, FirstNotIn(s, 1, {"0"}), Len(s))

RECURSIVE DigitsValue(_)
DigitsValue(s) ==
  IF s = "" THEN 0
  ELSE 10 * DigitsValue(SubSeq(s, 1, Len(s) - 1)) + DigitVal(Chr(s, Len(s)))

\* a and b digit strings of one length: a >= b
DigitsGeq(a, b) ==
  \/ a = b
  \/ \E i \in 1..Len(a) :
       /\ DigitVal(Chr(a, i)) > DigitVal(Chr(b, i))
       /\ \A k \in 1..(i - 1) : Chr(a, k) = Chr(b, k)

\* 2^1024 - 2^970: the least integer that rounds to Infinity as a double
DoubleOverflow ==
  "179769313486231580793728971405303415079934132710037826936173778980444968292764750946649017977587207096330286416692887910946555547851940402630657488671505820681908902000708383676273854845817711531764475730270069855571366959622842914819860834936475292719074168444365510704342711559699508093042880177904174497792"

\* parseInt's result for the significant digits sig of a numeral of sign sgn
ParseSignificant(sgn, sig) ==
  IF Len(sig) <= 9 THEN Int32(sgn * DigitsValue(sig))
  ELSE IF \/ Len(sig) > Len(DoubleOverflow)
          \/ Len(sig) = Len(DoubleOverflow) /\ DigitsGeq(sig, DoubleOverflow)
  THEN [k |-> "inf", v |-> sgn, d |-> ""]
  ELSE [k |-> "big", v |-> sgn * Len(sig), d |-> sig]

\* parseInt's result for the digit run that follows the sign
ParseRun(sgn, run) ==
  IF run = "" THEN NaN ELSE ParseSignificant(sgn, StripZeros(run))

\* parseInt after the leading white space and the sign
ParseUnsigned(sgn, u) == ParseRun(sgn, SubSeq(u, 1, DigitRun(u)))

\* parseInt after the leading white space
ParseTrimmed(t) ==
  IF t # "" /\ Chr(t, 1) \in {"-", "+"}
  THEN ParseUnsigned(IF Chr(t, 1) = "-" THEN -1 ELSE 1, SubSeq(t, 2, Len(t)))
  ELSE ParseUnsigned(1, t)

\* parseInt(s, 10)
ParseInt(s) == ParseTrimmed(TrimStart(s))

IsNaN(x) == x.k = "nan"

RECURSIVE NatToString(_)
NatToString(n) ==
  IF n < 10 THEN Chr(Digits, n + 1)
  ELSE NatToString(n \div 10) \o Chr(Digits, (n % 10) + 1)

\* String(x): a number of 22 digits or more prints in exponent notation
NumToString(x) ==
  CASE x.k = "nan" -> "NaN"
    [] x.k = "inf" -> IF x.v < 0 THEN "-Infinity" ELSE "Infinity"
    [] x.k = "int" -> IF x.v < 0 THEN "-" \o NatToString(-x.v) ELSE NatToString(x.v)
    [] x.k = "big" ->
         LET n == IF x.v < 0 THEN -x.v ELSE x.v
             m == IF n <= 21 THEN x.d
                  ELSE Chr(x.d, 1) \o "." \o SubSeq(x.d, 2, 17) \o "e+"
                       \o NatToString(n - 1)
         IN  IF x.v < 0 THEN "-" \o m ELSE m

\* JSON.stringify of a number: a non-finite number prints as null
NumToJson(x) == IF x.k \in {"nan", "inf"} THEN "null" ELSE NumToString(x)

-----------------------------------------------------------------------------
(* The settings schema *)

VALID_TYPES == <<"artist", "release", "master", "label">>

VALID_OUTPUT_FORMATS == <<"human", "csv", "pipe", "markdown">>

VALID_TRACKS_TYPES == <<"master", "release">>

SchemaKeys == <<"type", "per_page", "tracks_type", "tracks_output", "verbose">>

IsSchemaKey(key) == Includes(SchemaKeys, key)

Label(key) ==
  CASE key = "type"          -> "Search Type"
    [] key = "per_page"      -> "Results Per Page"
    [] key = "tracks_type"   -> "Default Tracks Type"
    [] key = "tracks_output" -> "Tracks Output Format"
    [] key = "verbose"       -> "Verbose Mode"

\* !isNaN(n) && n > 0
IsPositive(n) == ~IsNaN(n) /\ n.v > 0

\* schema.validate(v), v a string, null or undefined
Validate(key, v) ==
  CASE key = "type" ->
         Falsy(v) \/ v = "none" \/ v = "all" \/ Includes(VALID_TYPES, v)
    [] key = "per_page" ->
         IsPositive(ParseInt(v))
    [] key = "tracks_type"   -> Includes(VALID_TRACKS_TYPES, v)
    [] key = "tracks_output" -> Includes(VALID_OUTPUT_FORMATS, v)
    [] key = "verbose"       -> TRUE

\* schema.transform(v), v a string
Transform(key, v) ==
  CASE key = "type" ->
         IF Falsy(v) \/ v = "none" \/ v = "all" THEN Null ELSE ToLowerCase(v)
    [] key = "per_page"      -> ParseInt(v)
    [] key = "tracks_type"   -> ToLowerCase(v)
    [] key = "tracks_output" -> ToLowerCase(v)
    [] key = "verbose"       -> v = "on" \/ v = "true"

\* schema.format(typed)
Format(key, x) ==
  CASE key = "type"          -> IF Falsy(x) THEN "none (all)" ELSE x
    [] key = "per_page"      -> NumToString(x)
    [] key = "tracks_type"   -> x
    [] key = "tracks_output" -> x
    [] key = "verbose"       -> IF x THEN "on" ELSE "off"

ErrorMsg(key) ==
  CASE key = "type"          -> "Valid types: artist, release, master, label, none"
    [] key = "per_page"      -> "Must be a positive number"
    [] key = "tracks_type"   -> "Valid types: master, release"
    [] key = "tracks_output" -> "Valid formats: human, csv, pipe, markdown"
    [] key = "verbose"       -> "Use: on or off"

\* schema.choices, the values only; <<>> for a free-text setting
Choices(key) ==
  CASE key = "type"          -> <<Null, "artist", "release", "master", "label">>
    [] key = "per_page"      -> <<>>
    [] key = "tracks_type"   -> <<"master", "release">>
    [] key = "tracks_output" -> <<"human", "csv", "pipe", "markdown">>
    [] key = "verbose"       -> <<FALSE, TRUE>>

JsonString(v) == IF v = Null THEN "null" ELSE Quote \o v \o Quote

\* JSON.stringify(sessionFlags)
FlagsJson(f) ==
  "{\"type\":" \o JsonString(f.type)
  \o ",\"per_page\":" \o NumToJson(f.per_page)
  \o ",\"verbose\":" \o (IF f.verbose THEN "true" ELSE "false")
  \o ",\"tracks_type\":" \o JsonString(f.tracks_type)
  \o ",\"tracks_output\":" \o JsonString(f.tracks_output) \o "}"


-----------------------------------------------------------------------------
(* The file system under dist/ and the session log.  A handler works on a  *)
(* record st = [flags, dirs, logExists, logContent, wrote]: the Session    *)
(* Flags, the file-system state and the log entries written so far in the  *)
(* current loop iteration.  A handler's result is a record                 *)
(*   [st, ret, out, handler, kind, apiCalls, promptCalls, err, endpoint,   *)
(*    jsonFiles, trackFiles, sent, saved]                                  *)
(* with ret "true" | "false" | "throw" | "exit1" (process.exit(1) inside   *)
(* the handler), out what it printed, kind which of its paths it took,     *)
(* endpoint the client function it called, jsonFiles and trackFiles the    *)
(* files it wrote under dist/json and dist/tracks, sent the parameters it  *)
(* passed to the client and saved the params of the JSON output.           *)

AllDirs == {"dist", "dist/json", "dist/logs", "dist/tracks"}

LogHeader == "=== Muzak CLI Log ==="

\* writeFileSync(logFile, ...) needs dist/logs; without it it throws ENOENT
CanWriteLog(st) == "dist/logs" \in st.dirs

EnoentMsg == "ENOENT: no such file or directory, open log file"

WriteLog(st, entry) ==
  [st EXCEPT !.logContent = (IF st.logExists THEN st.logContent ELSE <<>>)
                            \o <<entry>>,
             !.logExists  = TRUE,
             !.wrote      = st.wrote \o <<entry>>]

Result(st, ret, out, handler, kind) ==
  [st |-> st, ret |-> ret, out |-> out, handler |-> handler, kind |-> kind,
   apiCalls |-> 0, promptCalls |-> 0, err |-> "", endpoint |-> "",
   jsonFiles |-> 0, trackFiles |-> 0, sent |-> <<>>, saved |-> <<>>]

Throw(st, out, handler, kind, msg) ==
  [st |-> st, ret |-> "throw", out |-> out, handler |-> handler, kind |-> kind,
   apiCalls |-> 0, promptCalls |-> 0, err |-> msg, endpoint |-> "",
   jsonFiles |-> 0, trackFiles |-> 0, sent |-> <<>>, saved |-> <<>>]

-----------------------------------------------------------------------------
(* set and settings *)

showSettings(flags) ==
  <<"header:Current Settings:">>
  \o [i \in 1..Len(SchemaKeys) |->
        "plain:" \o Label(SchemaKeys[i]) \o " " \o Format(SchemaKeys[i], flags[SchemaKeys[i]])]

\* the tail of handleSet and handleSettings with the flags record replaced by
\* a new one that holds the new value
ChangedFreshRecord(st, key, typed, handler, kind) ==
  LET st1 == [st EXCEPT !.flags = [[type |-> Null, per_page |-> Int32(5),
                                    verbose |-> FALSE, tracks_type |-> "master",
                                    tracks_output |-> "human"]
                                     EXCEPT ![key] = typed]]
      out == <<"success:" \o Label(key) \o ": " \o Format(key, typed)>>
  IN  IF CanWriteLog(st1)
      THEN [Result(WriteLog(st1, "Settings updated: " \o FlagsJson(st1.flags)),
                   "true", out, handler, kind)
              EXCEPT !.promptCalls = IF key = "type" THEN 1 ELSE 0]
      ELSE [Throw(st1, out, handler, kind, EnoentMsg)
              EXCEPT !.promptCalls = IF key = "type" THEN 1 ELSE 0]

\* the tail of handleSet and handleSettings: report, updatePrompt, writeLog
Changed(st, key, typed, handler, kind) ==
  LET st1 == [st EXCEPT !.flags[key] = typed]
      out == <<"success:" \o Label(key) \o ": " \o Format(key, typed)>>
  IN  IF CanWriteLog(st1)
      THEN [Result(WriteLog(st1, "Settings updated: " \o FlagsJson(st1.flags)),
                   "true", out, handler, kind)
              EXCEPT !.promptCalls = IF key = "type" THEN 1 ELSE 0]
      ELSE [Throw(st1, out, handler, kind, EnoentMsg)
              EXCEPT !.promptCalls = IF key = "type" THEN 1 ELSE 0]

\* handleSet's body with the assignment moved before the validation
SetAssignFirst(option, value, key, val, st) ==
      IF Falsy(option) THEN Result(st, "true", showSettings(st.flags), "set", "show")
      ELSE IF ~IsSchemaKey(key) /\ key \notin InheritedKeys
      THEN Result(st, "true",
                  <<"error:Unknown option: " \o option,
                    "info:Available options: type, per_page, tracks_type, tracks_output, verbose">>,
                  "set", "unknownOption")
      ELSE IF key \in InheritedKeys
      \* SETTINGS_SCHEMA[key] is an inherited, truthy value without validate,
      \* transform or format
      THEN IF value = Undefined
           THEN Throw(st, <<"error:Missing value for " \o option>>, "set", "threw",
                      "schema.format is not a function")
           ELSE Throw(st, <<>>, "set", "threw", "schema.validate is not a function")
      ELSE IF value = Undefined
      THEN Result(st, "true",
                  <<"error:Missing value for " \o option,
                    "info:Current: " \o Format(key, st.flags[key])>>
                  \o (IF Choices(key) # <<>> THEN <<"info:Options">> ELSE <<>>),
                  "set", "missingValue")
      ELSE IF ~Validate(key, val)
      THEN Result([st EXCEPT !.flags[key] = Transform(key, val)], "true",
                  <<"error:Invalid value '" \o value \o "'", "info:" \o ErrorMsg(key)>>,
                  "set", "invalid")
      ELSE Changed(st, key, Transform(key, val), "set", "changed")

handleSetAssignFirst(args, st) ==
  SetAssignFirst(IF Len(args) >= 1 THEN args[1] ELSE Undefined,
                 IF Len(args) >= 2 THEN args[2] ELSE Undefined,
                 ToLowerCase(IF Len(args) >= 1 THEN args[1] ELSE Undefined),
                 ToLowerCase(IF Len(args) >= 2 THEN args[2] ELSE Undefined), st)

SetOption(option, value, key, val, st) ==
      IF Falsy(option) THEN Result(st, "true", showSettings(st.flags), "set", "show")
      ELSE IF ~IsSchemaKey(key) /\ key \notin InheritedKeys
      THEN Result(st, "true",
                  <<"error:Unknown option: " \o option,
                    "info:Available options: type, per_page, tracks_type, tracks_output, verbose">>,
                  "set", "unknownOption")
      ELSE IF key \in InheritedKeys
      \* SETTINGS_SCHEMA[key] is an inherited, truthy value without validate,
      \* transform or format
      THEN IF value = Undefined
           THEN Throw(st, <<"error:Missing value for " \o option>>, "set", "threw",
                      "schema.format is not a function")
           ELSE Throw(st, <<>>, "set", "threw", "schema.validate is not a function")
      ELSE IF value = Undefined
      THEN Result(st, "true",
                  <<"error:Missing value for " \o option,
                    "info:Current: " \o Format(key, st.flags[key])>>
                  \o (IF Choices(key) # <<>> THEN <<"info:Options">> ELSE <<>>),
                  "set", "missingValue")
      ELSE IF ~Validate(key, val)
      THEN Result(st, "true",
                  <<"error:Invalid value '" \o value \o "'", "info:" \o ErrorMsg(key)>>,
                  "set", "invalid")
      ELSE Changed(st, key, Transform(key, val), "set", "changed")

\* option = args[0], value = args[1], key = option?.toLowerCase(),
\* val = value?.toLowerCase()
handleSet(args, st) ==
  SetOption(IF Len(args) >= 1 THEN args[1] ELSE Undefined,
            IF Len(args) >= 2 THEN args[2] ELSE Undefined,
            ToLowerCase(IF Len(args) >= 1 THEN args[1] ELSE Undefined),
            ToLowerCase(IF Len(args) >= 2 THEN args[2] ELSE Undefined), st)

\* what the user types at "Enter Results Per Page:"; the prompt returns only
\* an entry that schema.validate accepts
\* c repeated n times
RECURSIVE Repeat(_, _)
Repeat(c, n) ==
  IF n = 0 THEN ""
  ELSE LET h == Repeat(c, n \div 2)
       IN  h \o h \o (IF n % 2 = 1 THEN c ELSE "")

\* a run of digits one digit longer than the largest finite double
HugeDigits == Repeat("9", Len(DoubleOverflow) + 1)

TextEntries == <<"25", "0", HugeDigits>>

Interrupted == 0

\* the choices of the first menu: the five settings, Back, or Ctrl+C
MenuSettings == {"type", "per_page", "tracks_type", "tracks_output", "verbose",
                 "back", "interrupt"}

\* the second prompt: 0 is Ctrl+C, k the k-th choice or the k-th text entry
MenuPicks(setting) ==
  IF setting \in {"back", "interrupt"} THEN {Interrupted}
  ELSE IF Choices(setting) # <<>> THEN 0..Len(Choices(setting))
  ELSE {Interrupted} \cup {k \in 1..Len(TextEntries) : Validate(setting, TextEntries[k])}

\* handleSettings with the log write moved in front of the returns
handleSettingsLogsFirst(st, setting, pick) ==
  IF setting \in {"back", "interrupt"} \/ pick = Interrupted
  THEN Result(WriteLog(st, "Settings updated: " \o FlagsJson(st.flags)),
              "true", <<>>, "settings", "cancelled")
  ELSE IF Choices(setting) # <<>>
  THEN Changed(st, setting, Choices(setting)[pick], "settings", "changed")
  ELSE Changed(st, setting, Transform(setting, TextEntries[pick]), "settings", "changed")

handleSettings(st, setting, pick) ==
  IF setting \in {"back", "interrupt"}
  THEN Result(st, "true", <<>>, "settings", "cancelled")
  ELSE IF pick = Interrupted
  THEN Result(st, "true", <<>>, "settings", "cancelled")
  ELSE IF Choices(setting) # <<>>
  THEN Changed(st, setting, Choices(setting)[pick], "settings", "changed")
  ELSE Changed(st, setting, Transform(setting, TextEntries[pick]), "settings", "changed")

-----------------------------------------------------------------------------
(* clean, search, tracks, help, exit *)

\* rm: whether rmSync succeeds ("ok") or throws ("fail")
handleClean(st, rm) ==
  IF "dist" \notin st.dirs
  THEN Result(st, "true", <<"info:dist folder does not exist. Nothing to clean.">>,
              "clean", "nothing")
  ELSE IF rm = "ok"
  THEN Result([st EXCEPT !.dirs = {}, !.logExists = FALSE, !.logContent = <<>>],
              "true", <<"success:Cleaned dist folder (json output and logs).">>,
              "clean", "cleaned")
  ELSE Result(st, "exit1", <<"error:Error cleaning dist folder:">>, "clean", "rmFailed")

\* what the Discogs API does with one request: a body with results or tracks
\* ("results"), a body with none ("empty"), a failure the client catches
\* ("error"), a body of an unexpected shape ("malformed")
ApiOutcomes == {"results", "empty", "error", "malformed"}

\* logApiResponse inside the client: one log entry per request
ApiLogged(st, endpoint) == WriteLog(st, "API CALL: " \o endpoint)

\* writeJsonOutput / writeTracksOutput: mkdirSync(..., {recursive: true})
OutputWritten(st, sub) == [st EXCEPT !.dirs = st.dirs \cup {"dist", sub}]

\* args.join(' ')
RECURSIVE Join(_)
Join(args) ==
  IF Len(args) = 0 THEN ""
  ELSE IF Len(args) = 1 THEN args[1]
  ELSE args[1] \o " " \o Join(Tail(args))

\* what handleSearch passes to searchDiscogs
SearchParams(query, flags) ==
  [query |-> query, type |-> flags.type, per_page |-> flags.per_page]

\* the params of buildSearchOutput as JSON.stringify writes them
SearchParamsJson(sent) ==
  [query |-> JsonString(sent.query), searchType |-> JsonString(sent.type),
   per_page |-> NumToJson(sent.per_page)]

\* one call of searchDiscogs with the parameters sent
Searched(r, sent) == [r EXCEPT !.apiCalls = 1, !.sent = sent]

\* writeJsonOutput(output)
JsonWritten(r, saved) == [r EXCEPT !.jsonFiles = 1, !.saved = saved]

\* handleSearch after the client logged its call: st1 the state after the
\* log write
SearchFetched(st1, api, intro, sent) ==
  CASE api = "results" ->
         Searched(JsonWritten(Result(OutputWritten(st1, "dist/json"), "true",
                                     intro \o <<"success:Found result(s):", "success:Output saved">>,
                                     "search", "written"),
                              SearchParamsJson(sent)), sent)
    [] api = "empty" ->
         Searched(Result(st1, "true", intro \o <<"warn:No results found :(">>,
                         "search", "noResults"), sent)
    [] api = "error" ->
         Searched(Result(st1, "true",
                         intro \o <<"error:Error searching Discogs:",
                                    "warn:No results found :(">>,
                         "search", "noResults"), sent)
    [] api = "malformed" ->
         Searched(Throw(st1, intro, "search", "threw",
                        "Cannot read properties of undefined (reading 'length')"), sent)

\* handleSearch from the call of searchDiscogs on
SearchFetch(st, api, intro, sent) ==
  IF ~CanWriteLog(st) THEN Searched(Throw(st, intro, "search", "threw", EnoentMsg), sent)
  ELSE SearchFetched(ApiLogged(st, "database.search"), api, intro, sent)

handleSearch(args, st, api) ==
  SearchFetch(st, api,
              <<"info:Starting search on Discogs",
                "plain:results per page: " \o NumToString(st.flags.per_page)>>,
              SearchParams(Join(args), st.flags))

searchHandler(args, st, api) ==
  IF Len(args) = 0
  THEN Result(st, "true",
              <<"info:Search Discogs with current settings",
                "plain:search type: " \o (IF Falsy(st.flags.type) THEN "all" ELSE st.flags.type),
                "plain:results per page: " \o NumToString(st.flags.per_page),
                "plain:usage: search <query>">>,
              "search", "usage")
  ELSE handleSearch(args, st, api)

\* parseTracksArgs without the lower-casing of the type
parseTracksArgsCaseSensitive(args, defaultType) ==
  IF Len(args) = 0
  THEN [type |-> Undefined, id |-> Undefined, error |-> "Please provide an ID"]
  ELSE IF Len(args) = 1 \/ ~IsNaN(ParseInt(args[1]))
  THEN [type |-> defaultType, id |-> args[1], error |-> Undefined]
  ELSE IF args[1] \notin {"master", "release"}
  THEN [type |-> Undefined, id |-> Undefined,
        error |-> "Invalid type '" \o args[1] \o "'"]
  ELSE [type |-> args[1], id |-> args[2], error |-> Undefined]

parseTracksArgs(args, defaultType) ==
  IF Len(args) = 0
  THEN [type |-> Undefined, id |-> Undefined, error |-> "Please provide an ID"]
  ELSE IF Len(args) = 1 \/ ~IsNaN(ParseInt(args[1]))
  THEN [type |-> defaultType, id |-> args[1], error |-> Undefined]
  ELSE IF ToLowerCase(args[1]) \notin {"master", "release"}
  THEN [type |-> Undefined, id |-> Undefined,
        error |-> "Invalid type '" \o args[1] \o "'"]
  ELSE [type |-> ToLowerCase(args[1]), id |-> args[2], error |-> Undefined]

\* one call of getMaster or getRelease
Called(r, endpoint) == [r EXCEPT !.apiCalls = 1, !.endpoint = endpoint]

\* writeJsonOutput and writeTracksOutput: the files written
Wrote(r, json, tracks) == [r EXCEPT !.jsonFiles = json, !.trackFiles = tracks]

\* handleTracks after the client logged its call: st1 the state after the
\* log write
TracksFetched(st1, api, endpoint, intro) ==
  CASE api = "results" ->
         Called(Wrote(Result(OutputWritten(OutputWritten(st1, "dist/tracks"), "dist/json"),
                             "true", intro \o <<"success:Found", "success:Output saved">>,
                             "tracks", "written"), 1, 1), endpoint)
    [] api = "empty" ->
         Called(Wrote(Result(OutputWritten(st1, "dist/json"), "true",
                             intro \o <<"success:Found", "warn:No tracks found.",
                                        "success:Output saved">>,
                             "tracks", "noTracks"), 1, 0), endpoint)
    [] api = "error" ->
         Called(Result(st1, "true", intro \o <<"warn:Could not fetch">>,
                       "tracks", "notFetched"), endpoint)
    [] api = "malformed" ->
         Called(Throw(st1, intro \o <<"success:Found">>, "tracks", "threw",
                      "tracklist.forEach is not a function"), endpoint)

\* handleTracks from the fetch on
TracksFetch(st, api, endpoint, intro) ==
  IF ~CanWriteLog(st) THEN Called(Throw(st, intro, "tracks", "threw", EnoentMsg), endpoint)
  ELSE TracksFetched(ApiLogged(st, endpoint), api, endpoint, intro)

handleTracks(type, id, st, api) ==
  IF IsNaN(ParseInt(id))
  THEN Result(st, "true", <<"error:Invalid ID. Please provide a numeric ID.">>,
              "tracks", "invalidId")
  ELSE TracksFetch(st, api,
                   IF type = "master" THEN "database.getMaster"
                   ELSE "database.getRelease",
                   <<"info:tracks search type: " \o type,
                     "info:output format: " \o st.flags.tracks_output>>)

\* the tracks handler after parseTracksArgs returned p
TracksParsed(p, st, api) ==
  IF p.error # Undefined
  THEN Result(st, "true", <<"error:" \o p.error>>, "tracks", "badArgs")
  ELSE handleTracks(p.type, p.id, st, api)

tracksHandler(args, st, api) ==
  TracksParsed(parseTracksArgs(args, st.flags.tracks_type), st, api)

helpHandler(st) == Result(st, "true", <<"plain:Available Commands:">>, "help", "help")

exitHandler(st) ==
  IF CanWriteLog(st)
  THEN Result(WriteLog(st, "Session ended by user"), "false",
              <<"plain:", "success:Goodbye!">>, "exit", "exit")
  ELSE Throw(st, <<>>, "exit", "threw", EnoentMsg)

-----------------------------------------------------------------------------
(* The dispatcher *)

\* what the environment does during one dispatch
Env(api, setting, pick, rm) ==
  [api |-> api, setting |-> setting, pick |-> pick, rm |-> rm]

NoEnv == Env("results", "back", 0, "ok")

\* the line printed before a command runs when verbose is off
Leading == "header:\n----"

\* the line printed after a command ran
Separator == "header:\n----\n"

InvokeHandler(cmd, args, st, env) ==
  CASE cmd.handler = "search"   -> searchHandler(args, st, env.api)
    [] cmd.handler = "tracks"   -> tracksHandler(args, st, env.api)
    [] cmd.handler = "settings" -> handleSettings(st, env.setting, env.pick)
    [] cmd.handler = "set"      -> handleSet(args, st)
    [] cmd.handler = "clean"    -> handleClean(st, env.rm)
    [] cmd.handler = "help"     -> helpHandler(st)
    [] cmd.handler = "exit"     -> exitHandler(st)
    [] OTHER -> Throw(st, <<>>, "none", "threw", "cmd.handler is not a function")

\* executeCommand from the log write on: the command p.command is not empty
\* the end of executeCommand: the handler returned or threw h
Finish(h, echo) ==
  IF h.ret \in {"throw", "exit1"}
  THEN [h EXCEPT !.out = echo \o h.out]
  ELSE [h EXCEPT !.out = echo \o h.out \o <<Separator>>]

\* executeCommand from findCommand on: cmd its result, st1 the state after
\* the log write, echo the lines printed so far
Resolved(cmd, p, st1, echo, env) ==
  IF cmd = NoCommand
  THEN Result(st1, "true",
              echo \o <<"error:Unknown command: " \o p.command,
                        "info:Type 'help' for available commands.",
                        Separator>>,
              "none", "unknown")
  ELSE IF cmd.minArgs # 0 /\ Len(p.args) < cmd.minArgs
  THEN Result(st1, "true",
              echo \o <<"error:Missing arguments", "info:Usage: " \o cmd.usage,
                        Separator>>,
              "none", "missingArgs")
  ELSE Finish(InvokeHandler(cmd, p.args, st1, env), echo)

Dispatch(p, input, st, env) ==
  IF ~CanWriteLog(st) THEN Throw(st, <<>>, "none", "logFailed", EnoentMsg)
  ELSE Resolved(findCommand(p.command), p,
                WriteLog(st, "Command: " \o Trim(input)),
                IF st.flags.verbose
                THEN <<"debug:Command", "debug:Input: " \o Trim(input)>>
                ELSE <<Leading>>,
                env)

\* executeCommand with the empty-command return moved below the log write
\* and the echo
executeCommandLogFirst(input, st, env) ==
  LET p == parseInput(input)
  IN  IF p.command = ""
      THEN IF CanWriteLog(st)
           THEN Result(WriteLog(st, "Command: " \o Trim(input)), "true",
                       <<Leading>>, "none", "empty")
           ELSE Throw(st, <<>>, "none", "logFailed", EnoentMsg)
      ELSE Dispatch(p, input, st, env)

executeCommand(input, st, env) ==
  LET p == parseInput(input)
  IN  IF p.command = "" THEN Result(st, "true", <<>>, "none", "empty")
      ELSE Dispatch(p, input, st, env)

-----------------------------------------------------------------------------
(* The configuration file and its getters *)

Config(verbose, perPage, type, tracksType, tracksOutput, token) ==
  [VERBOSE |-> verbose, PER_PAGE |-> perPage, DEFAULT_TYPE |-> type,
   DEFAULT_TRACKS_TYPE |-> tracksType, DEFAULT_TRACKS_OUTPUT |-> tracksOutput,
   DISCOGS_TOKEN |-> token]

\* the .mzkconfig files a session starts from (a key without a value is
\* never stored, so a value is a non-empty string or undefined)
Configs ==
  { Config(Undefined, Undefined, Undefined, Undefined, Undefined, Undefined),
    Config("true", "10", "Artist", "RELEASE", "csv", "tok") }

isVerbose(fileConfig) == fileConfig.VERBOSE \notin {Undefined, ""}

\* isNaN(val) || val < 1 ? 5 : val
PerPageOrDefault(val) == IF IsNaN(val) \/ val.v < 1 THEN Int32(5) ELSE val

getPerPage(fileConfig) == PerPageOrDefault(ParseInt(fileConfig.PER_PAGE))

getDefaultType(fileConfig) ==
  LET val == ToLowerCase(fileConfig.DEFAULT_TYPE)
  IN  IF Includes(VALID_TYPES, val) THEN val ELSE Null

getDefaultTracksType(fileConfig) ==
  LET val == ToLowerCase(fileConfig.DEFAULT_TRACKS_TYPE)
  IN  IF Includes(VALID_TRACKS_TYPES, val) THEN val ELSE "master"

getDefaultTracksOutput(fileConfig) ==
  LET val == ToLowerCase(fileConfig.DEFAULT_TRACKS_OUTPUT)
  IN  IF Includes(VALID_OUTPUT_FORMATS, val) THEN val ELSE "human"

createSessionFlags(fileConfig) ==
  [type          |-> getDefaultType(fileConfig),
   per_page      |-> getPerPage(fileConfig),
   verbose       |-> isVerbose(fileConfig),
   tracks_type   |-> getDefaultTracksType(fileConfig),
   tracks_output |-> getDefaultTracksOutput(fileConfig)]

-----------------------------------------------------------------------------
(* The session loop *)

\* the lines the user types
Lines ==
  { "", "   ", "\"",
    "help", "EXIT", "quit now", "frobnicate", "constructor",
    "tracks", "T", "tracks 123", "s \"Daft Punk\"",
    "settings", "clean",
    "set", "set TYPE none", "set type bogus", "set type",
    "set per_page 15abc", "set per_page 0", "set per_page " \o HugeDigits,
    "set bogus 1", "set constructor x",
    "set verbose ON", "set Verbose maybe" }

NoLast ==
  [input |-> "", command |-> "", args |-> <<>>, ret |-> "none",
   handler |-> "none", kind |-> "none", apiCalls |-> 0, promptCalls |-> 0,
   err |-> "", flagsBefore |-> sessionFlags, logBefore |-> <<>>,
   dirsBefore |-> {}, wrote |-> <<>>, endpoint |-> "", jsonFiles |-> 0,
   trackFiles |-> 0]

\* startSession up to the loop: flags from the configuration, ensureDistDir,
\* initLog and the two start entries
Init ==
  /\ \E fileConfig \in Configs :
       /\ sessionFlags = createSessionFlags(fileConfig)
       /\ logContent = <<LogHeader, "Session started",
                         "Token: " \o (IF fileConfig.DISCOGS_TOKEN = Undefined
                                       THEN "not configured" ELSE "configured")>>
       /\ last = [NoLast EXCEPT !.flagsBefore = createSessionFlags(fileConfig)]
  /\ dirs = AllDirs
  /\ logExists = TRUE
  /\ pc = "prompt"
  /\ exitCode = -1
  /\ console = <<>>
  /\ steps = 0
  /\ fcArg = ""
  /\ fcRes = NoCommand
  /\ call = NoCall

Current == [flags |-> sessionFlags, dirs |-> dirs, logExists |-> logExists,
            logContent |-> logContent, wrote |-> <<>>]

\* the catch block of the loop for an error that is not ExitPromptError
Caught(r) ==
  IF CanWriteLog(r.st)
  THEN [st |-> WriteLog(r.st, "Error: " \o r.err), pc |-> "prompt", code |-> -1,
        out |-> r.out \o <<"error:uh oh", "error:" \o r.err>>]
  ELSE [st |-> r.st, pc |-> "crashed", code |-> 1,
        out |-> r.out \o <<"error:uh oh", "error:" \o r.err>>]

\* one iteration of the loop: the prompt returns input, executeCommand runs
\* how the loop goes on after executeCommand's result r
After(r) ==
  CASE r.ret = "true"  -> [st |-> r.st, pc |-> "prompt", code |-> -1, out |-> r.out]
    [] r.ret = "false" -> [st |-> r.st, pc |-> "exited", code |-> 0, out |-> r.out]
    [] r.ret = "exit1" -> [st |-> r.st, pc |-> "exited", code |-> 1, out |-> r.out]
    [] r.ret = "throw" -> Caught(r)

\* one iteration of the loop: the prompt returns input, executeCommand runs
Iterate(input, env) ==
  /\ \E p \in {parseInput(input)}, r \in {executeCommand(input, Current, env)} :
       \E end \in {After(r)} :
         /\ sessionFlags' = end.st.flags
         /\ dirs' = end.st.dirs
         /\ logExists' = end.st.logExists
         /\ logContent' = end.st.logContent
         /\ pc' = end.pc
         /\ exitCode' = end.code
         /\ console' = end.out
         /\ last' = [input |-> input, command |-> p.command, args |-> p.args,
                     ret |-> r.ret, handler |-> r.handler, kind |-> r.kind,
                     apiCalls |-> r.apiCalls, promptCalls |-> r.promptCalls,
                     err |-> r.err, flagsBefore |-> sessionFlags,
                     logBefore |-> logContent, dirsBefore |-> dirs,
                     wrote |-> end.st.wrote, endpoint |-> r.endpoint,
                     jsonFiles |-> r.jsonFiles, trackFiles |-> r.trackFiles]
         /\ steps' = steps + 1
  /\ UNCHANGED pureVars

Resolves(input, handler) ==
  /\ parseInput(input).command # ""
  /\ findCommand(parseInput(input).command).handler = handler

\* the loop is at the prompt and the model's bound allows another iteration
AtPrompt == pc = "prompt" /\ steps < MaxSteps

\* the lines that resolve to each handler
EmptyLines == {l \in Lines : parseInput(l).command = ""}

UnknownLines == {l \in Lines : Resolves(l, Null)}

InheritedLines == {l \in Lines : Resolves(l, Undefined)}

SearchLines == {l \in Lines : Resolves(l, "search")}

TracksLines == {l \in Lines : Resolves(l, "tracks")}

SettingsLines == {l \in Lines : Resolves(l, "settings")}

SetLines == {l \in Lines : Resolves(l, "set")}

CleanLines == {l \in Lines : Resolves(l, "clean")}

HelpLines == {l \in Lines : Resolves(l, "help")}

ExitLines == {l \in Lines : Resolves(l, "exit")}

DispatchEmpty ==
  AtPrompt /\ \E input \in EmptyLines : Iterate(input, NoEnv)

DispatchUnknown ==
  AtPrompt /\ \E input \in UnknownLines : Iterate(input, NoEnv)

DispatchInherited ==
  AtPrompt /\ \E input \in InheritedLines : Iterate(input, NoEnv)

DispatchSearch ==
  AtPrompt /\ \E input \in SearchLines, api \in ApiOutcomes :
                Iterate(input, Env(api, "back", 0, "ok"))

DispatchTracks ==
  AtPrompt /\ \E input \in TracksLines, api \in ApiOutcomes :
                Iterate(input, Env(api, "back", 0, "ok"))

DispatchSettings ==
  AtPrompt /\ \E input \in SettingsLines, setting \in MenuSettings :
                \E pick \in MenuPicks(setting) :
                  Iterate(input, Env("results", setting, pick, "ok"))

DispatchSet ==
  AtPrompt /\ \E input \in SetLines : Iterate(input, NoEnv)

DispatchClean ==
  AtPrompt /\ \E input \in CleanLines, rm \in {"ok", "fail"} :
                Iterate(input, Env("results", "back", 0, rm))

DispatchHelp ==
  AtPrompt /\ \E input \in HelpLines : Iterate(input, NoEnv)

DispatchExit ==
  AtPrompt /\ \E input \in ExitLines : Iterate(input, NoEnv)

\* Ctrl+C at the prompt: ExitPromptError in the catch block
Interrupt ==
  /\ AtPrompt
  /\ IF CanWriteLog(Current)
     THEN /\ logContent' = WriteLog(Current, "Session ended by user (Ctrl+C)").logContent
          /\ logExists' = TRUE
          /\ pc' = "exited"
          /\ exitCode' = 0
          /\ console' = <<"plain:", "success:Goodbye!">>
          /\ last' = [NoLast EXCEPT !.input = "^C", !.ret = "interrupt",
                        !.kind = "interrupt", !.flagsBefore = sessionFlags,
                        !.logBefore = logContent, !.dirsBefore = dirs,
                        !.wrote = <<"Session ended by user (Ctrl+C)">>]
     ELSE /\ UNCHANGED <<logContent, logExists>>
          /\ pc' = "crashed"
          /\ exitCode' = 1
          /\ console' = <<>>
          /\ last' = [NoLast EXCEPT !.input = "^C", !.ret = "interrupt",
                        !.kind = "interrupt", !.err = EnoentMsg,
                        !.flagsBefore = sessionFlags,
                        !.logBefore = logContent, !.dirsBefore = dirs]
  /\ steps' = steps + 1
  /\ UNCHANGED <<sessionFlags, dirs, pureVars>>

Next ==
  \/ DispatchEmpty
  \/ DispatchUnknown
  \/ DispatchInherited
  \/ DispatchSearch
  \/ DispatchTracks
  \/ DispatchSettings
  \/ DispatchSet
  \/ DispatchClean
  \/ DispatchHelp
  \/ DispatchExit
  \/ Interrupt

Spec == Init /\ [][Next]_vars

-----------------------------------------------------------------------------
(* findCommand called directly, on every letter-case variant of a token *)

RECURSIVE CaseVariants(_)
CaseVariants(w) ==
  IF w = "" THEN {""}
  ELSE {c \o rest : c \in {ToLowerChar(Chr(w, 1)), ToUpperChar(Chr(w, 1))},
                    rest \in CaseVariants(SubSeq(w, 2, Len(w)))}

Words == {"search", "s", "tracks", "t", "settings", "set", "clean", "help",
          "?", "h", "exit", "quit", "q", "frob", "x", "constructor"}

Tokens == {""} \cup UNION {CaseVariants(w) : w \in Words}

\* one direct call in a behaviour, on any token
FindCommandCall ==
  /\ fcArg = ""
  /\ \E t \in Tokens :
       /\ fcArg' = t
       /\ fcRes' = findCommand(t)
  /\ UNCHANGED <<sessionVars, call>>

NextFind == FindCommandCall

SpecFind == Init /\ [][NextFind]_vars

-----------------------------------------------------------------------------
(* findCommand over the command list in every order *)

\* the orders of the seven commands: order[i] is the index in commandList of
\* the command at place i
Orderings ==
  {o \in [1..Len(commandList) -> 1..Len(commandList)] :
     \A i, j \in 1..Len(commandList) : o[i] = o[j] => i = j}

Reordered(order) == [i \in 1..Len(commandList) |-> commandList[order[i]]]

\* findCommand from the lookup on over the command list `list`: commands is
\* Object.fromEntries of the [name, cmd] pairs, where a later pair replaces
\* an earlier one of the same name; the alias loop returns the first match
LookupIn(list, lower) ==
  IF \E i \in 1..Len(list) : list[i].name = lower
  THEN list[CHOOSE i \in 1..Len(list) :
              /\ list[i].name = lower
              /\ \A j \in (i + 1)..Len(list) : list[j].name # lower]
  ELSE IF lower \in InheritedKeys
  THEN [name |-> lower, aliases |-> <<>>, minArgs |-> 0,
        usage |-> Undefined, handler |-> Undefined]
  ELSE IF \E i \in 1..Len(list) : Includes(list[i].aliases, lower)
  THEN list[CHOOSE i \in 1..Len(list) :
              /\ Includes(list[i].aliases, lower)
              /\ \A j \in 1..(i - 1) : ~Includes(list[j].aliases, lower)]
  ELSE NoCommand

findCommandIn(list, name) == LookupIn(list, ToLowerCase(name))

OrderTokens == Words \cup {"Q", "SET", "Tracks", "?x", ""}

\* one direct call of findCommand with the command list in some order
FindCommandOrdered ==
  /\ call = NoCall
  /\ \E order \in Orderings, t \in OrderTokens :
       call' = [fn |-> "findCommand", order |-> order, token |-> t,
                res |-> findCommandIn(Reordered(order), t)]
  /\ UNCHANGED <<sessionVars, fcArg, fcRes>>

NextOrder == FindCommandOrdered

SpecOrder == Init /\ [][NextOrder]_vars

-----------------------------------------------------------------------------
(* parseInput called directly *)

\* the words a line is made of: plain words, quoted spans at the start, in
\* the middle and next to unquoted characters, and single quotes
Pieces == {"search", "SEARCH", "Artist", "\"Daft Punk\"", "\"Help\"",
           "a\"b c\"d", "he\"lp", "\""}

Gaps == {" ", "   "}

\* the lines of n words with gap between them
RECURSIVE Joined(_, _)
Joined(n, gap) ==
  IF n = 1 THEN Pieces
  ELSE {l \o gap \o w : l \in Joined(n - 1, gap), w \in Pieces}

ParseLines ==
  UNION {{l, " " \o l \o "  "} : l \in UNION {Joined(n, gap) : n \in 1..MaxWords, gap \in Gaps}}

ParseInputCall ==
  /\ call = NoCall
  /\ \E input \in ParseLines :
       call' = [fn |-> "parseInput", input |-> input, res |-> parseInput(input)]
  /\ UNCHANGED <<sessionVars, fcArg, fcRes>>

NextParse == ParseInputCall

SpecParse == Init /\ [][NextParse]_vars

-----------------------------------------------------------------------------
(* The schema's validate, transform and format called directly *)

EnumWords == {"artist", "release", "master", "label", "none", "all",
              "human", "csv", "pipe", "markdown"}

NumberTexts ==
  {"1", "10", "100", "0", "-5", "abc", "15abc", " 7", "+3", "007", "-0",
   "12.9", "1e3", "x9", "4294967296", "123456789012345678901",
   "1234567890123456789012", "100000000000000000000000", HugeDigits,
   "-" \o HugeDigits, SubSeq(HugeDigits, 1, Len(DoubleOverflow)),
   DoubleOverflow}

SchemaValues ==
  {"", "bogus", "album", "json", "on", "TRUE", "off"}
  \cup UNION {CaseVariants(w) : w \in EnumWords}
  \cup NumberTexts

\* schema.validate(v), schema.transform(v) and schema.format of the typed
\* value for one setting and one raw string, and getPerPage() with that
\* string as the configuration's PER_PAGE
SchemaCall ==
  /\ call = NoCall
  /\ \E key \in {SchemaKeys[i] : i \in 1..Len(SchemaKeys)}, v \in SchemaValues :
       call' = [fn |-> "schema", key |-> key, v |-> v,
                valid |-> Validate(key, v),
                typed |-> Transform(key, v),
                shown |-> Format(key, Transform(key, v)),
                perPage |-> getPerPage(Config(Undefined, IF v = "" THEN Undefined ELSE v,
                                              Undefined, Undefined, Undefined, Undefined))]
  /\ UNCHANGED <<sessionVars, fcArg, fcRes>>

NextSchema == SchemaCall

SpecSchema == Init /\ [][NextSchema]_vars

-----------------------------------------------------------------------------
(* The service clients.  A JavaScript value they return is [t |-> "null"]  *)
(* or [t |-> "object", o |-> r], r a record of the object's fields.  What  *)
(* fetch does with one request is [kind |-> "throw"] (a transport          *)
(* exception) or a response with a status, a Retry-After header (Null when *)
(* absent) and a body, decodable JSON or not.                              *)

JsNull == [t |-> "null"]

JsObject(o) == [t |-> "object", o |-> o]

\* x.error is truthy
HasError(x) == x.t = "object" /\ "error" \in DOMAIN x.o

Undecodable == [t |-> "undecodable"]

FetchThrows == [kind |-> "throw"]

Response(status, retryAfter, body) ==
  [kind |-> "response", status |-> status, retryAfter |-> retryAfter, body |-> body]

\* response.ok
Ok(resp) == resp.status \in 200..299

\* ReccoBeats makeRequest, given what fetch does
makeRequestReccoBeats(resp) ==
  IF resp.kind = "throw" THEN JsNull
  ELSE IF resp.status = 429
  THEN JsObject([error |-> "rate_limited",
                 retryAfter |-> ParseInt(IF Falsy(resp.retryAfter) THEN "60"
                                         ELSE resp.retryAfter)])
  ELSE IF resp.status = 401 THEN JsObject([error |-> "auth_required"])
  ELSE IF ~Ok(resp) THEN JsNull
  ELSE IF resp.body = Undecodable THEN JsNull
  ELSE resp.body

\* getTrack and getAudioFeatures return what makeRequest returns
getTrack(resp) == makeRequestReccoBeats(resp)

getAudioFeatures(resp) == makeRequestReccoBeats(resp)

\* getTrackWithFeatures after Promise.all resolved with [track, features],
\* with the track request's failure returned only when both requests failed
CombineBothFailed(track, features) ==
  IF (track.t = "null" \/ HasError(track)) /\ (features.t = "null" \/ HasError(features))
  THEN track
  ELSE JsObject([k \in (IF track.t = "object" THEN DOMAIN track.o ELSE {})
                       \cup {"audioFeatures"} |->
                   IF k = "audioFeatures"
                   THEN (IF HasError(features) THEN JsNull ELSE features)
                   ELSE track.o[k]])

\* getTrackWithFeatures after Promise.all resolved with [track, features]
Combine(track, features) ==
  IF track.t = "null" \/ HasError(track) THEN track
  ELSE JsObject([k \in DOMAIN track.o \cup {"audioFeatures"} |->
                   IF k = "audioFeatures"
                   THEN (IF HasError(features) THEN JsNull ELSE features)
                   ELSE track.o[k]])

Pending == [t |-> "pending"]

\* what fetch can do with a ReccoBeats request for the body `body`
ReccoResponses(body) ==
  {FetchThrows, Response(200, Null, body), Response(200, Null, Undecodable),
   Response(429, "30", Undecodable), Response(429, Null, Undecodable),
   Response(401, Null, Undecodable), Response(404, Null, Undecodable),
   Response(500, Null, Undecodable)}

TrackBody == JsObject([id |-> "track-id", trackTitle |-> "Test Track"])

FeaturesBody == JsObject([id |-> "track-id", tempo |-> "120"])

\* getTrackWithFeatures is called: both requests are issued
FeaturesStart ==
  /\ call = NoCall
  /\ call' = [fn |-> "getTrackWithFeatures", track |-> Pending, features |-> Pending,
              first |-> "none", result |-> Pending]
  /\ UNCHANGED <<sessionVars, fcArg, fcRes>>

\* the track request completes and getTrack's promise resolves
TrackSettles ==
  /\ call.fn = "getTrackWithFeatures"
  /\ call.track = Pending
  /\ \E resp \in ReccoResponses(TrackBody) :
       call' = [call EXCEPT !.track = getTrack(resp),
                            !.first = IF call.features = Pending THEN "track" ELSE @]
  /\ UNCHANGED <<sessionVars, fcArg, fcRes>>

\* the audio-features request completes and getAudioFeatures' promise resolves
FeaturesSettle ==
  /\ call.fn = "getTrackWithFeatures"
  /\ call.features = Pending
  /\ \E resp \in ReccoResponses(FeaturesBody) :
       call' = [call EXCEPT !.features = getAudioFeatures(resp),
                            !.first = IF call.track = Pending THEN "features" ELSE @]
  /\ UNCHANGED <<sessionVars, fcArg, fcRes>>

\* Promise.all resolved: getTrackWithFeatures returns
FeaturesReturn ==
  /\ call.fn = "getTrackWithFeatures"
  /\ call.track # Pending /\ call.features # Pending
  /\ call.result = Pending
  /\ call' = [call EXCEPT !.result = Combine(call.track, call.features)]
  /\ UNCHANGED <<sessionVars, fcArg, fcRes>>

NextFeatures == FeaturesStart \/ TrackSettles \/ FeaturesSettle \/ FeaturesReturn

SpecFeatures == Init /\ [][NextFeatures]_vars

-----------------------------------------------------------------------------
(* The MusicBrainz client's rate limiting.  Times are milliseconds; one    *)
(* request is in flight at a time: the callers await each makeRequest.     *)

MIN_REQUEST_INTERVAL == 1100

\* Date.now() when the first request is made: far above the initial
\* lastRequestTime of 0
StartTime == 5000

\* how long a request is in flight
Durations == {300, 1200}

\* how long the caller works between a response and its next request
Pauses == {0, 400, 2000}

\* how long after its delay the timer of setTimeout fires
Lateness == {0, 50}

\* respectRateLimit's waitTime with the elapsed time in place of the rest of
\* the interval
WaitTimeElapsed(now, lastRequestTime) ==
  IF now - lastRequestTime < MIN_REQUEST_INTERVAL
  THEN now - lastRequestTime
  ELSE 0

\* respectRateLimit's waitTime, 0 when it does not wait
WaitTime(now, lastRequestTime) ==
  IF now - lastRequestTime < MIN_REQUEST_INTERVAL
  THEN MIN_REQUEST_INTERVAL - (now - lastRequestTime)
  ELSE 0

\* the module is loaded and the first caller is about to make a request
ThrottleStart ==
  /\ call = NoCall
  /\ call' = [fn |-> "musicbrainz", now |-> StartTime, lastRequestTime |-> 0,
              pc |-> "idle", wakeAt |-> 0, issued |-> <<>>, completed |-> <<>>]
  /\ UNCHANGED <<sessionVars, fcArg, fcRes>>

\* makeRequest is called: respectRateLimit either sets the timer or stores
\* the time and lets fetch be called at once
ThrottleCall ==
  /\ call.fn = "musicbrainz"
  /\ call.pc = "idle"
  /\ Len(call.issued) < MaxRequests
  /\ \E pause \in Pauses :
       IF WaitTime(call.now + pause, call.lastRequestTime) > 0
       THEN call' = [call EXCEPT !.now = call.now + pause,
                                 !.pc = "waiting",
                                 !.wakeAt = call.now + pause
                                   + WaitTime(call.now + pause, call.lastRequestTime)]
       ELSE call' = [call EXCEPT !.now = call.now + pause,
                                 !.pc = "inflight",
                                 !.lastRequestTime = call.now + pause,
                                 !.issued = Append(@, call.now + pause)]
  /\ UNCHANGED <<sessionVars, fcArg, fcRes>>

\* the timer fires: respectRateLimit stores the time and fetch is called
ThrottleWakes ==
  /\ call.fn = "musicbrainz"
  /\ call.pc = "waiting"
  /\ \E late \in Lateness :
       call' = [call EXCEPT !.now = call.wakeAt + late,
                            !.pc = "inflight",
                            !.lastRequestTime = call.wakeAt + late,
                            !.issued = Append(@, call.wakeAt + late)]
  /\ UNCHANGED <<sessionVars, fcArg, fcRes>>

\* the request completes and makeRequest returns to its caller
ThrottleCompletes ==
  /\ call.fn = "musicbrainz"
  /\ call.pc = "inflight"
  /\ \E d \in Durations :
       call' = [call EXCEPT !.now = call.now + d,
                            !.pc = "idle",
                            !.completed = Append(@, call.now + d)]
  /\ UNCHANGED <<sessionVars, fcArg, fcRes>>

NextThrottle == ThrottleStart \/ ThrottleCall \/ ThrottleWakes \/ ThrottleCompletes

SpecThrottle == Init /\ [][NextThrottle]_vars

-----------------------------------------------------------------------------
(* The three request functions called directly *)

\* a promise that rejected
Rejected == [t |-> "rejected"]

\* GetSongBPM makeRequest, given the configured key and what fetch does
makeRequestGetSongBPM(apiKey, resp) ==
  IF Falsy(apiKey) THEN JsObject([error |-> "no_api_key"])
  ELSE IF resp.kind = "throw" THEN JsNull
  ELSE IF resp.status = 401 THEN JsObject([error |-> "invalid_api_key"])
  ELSE IF resp.status = 429 THEN JsObject([error |-> "rate_limited"])
  ELSE IF ~Ok(resp) THEN JsNull
  ELSE IF resp.body = Undecodable THEN JsNull
  ELSE resp.body

\* MusicBrainz makeRequest without its try and catch
makeRequestMusicBrainzNoCatch(resp) ==
  IF resp.kind = "throw" THEN Rejected
  ELSE IF resp.status = 503 THEN JsObject([error |-> "rate_limited"])
  ELSE IF ~Ok(resp) THEN JsNull
  ELSE IF resp.body = Undecodable THEN Rejected
  ELSE resp.body

\* MusicBrainz makeRequest after respectRateLimit, given what fetch does
makeRequestMusicBrainz(resp) ==
  IF resp.kind = "throw" THEN JsNull
  ELSE IF resp.status = 503 THEN JsObject([error |-> "rate_limited"])
  ELSE IF ~Ok(resp) THEN JsNull
  ELSE IF resp.body = Undecodable THEN JsNull
  ELSE resp.body

Clients == {"ReccoBeats", "GetSongBPM", "MusicBrainz"}

\* makeRequest of one client
makeRequest(client, apiKey, resp) ==
  CASE client = "ReccoBeats"  -> makeRequestReccoBeats(resp)
    [] client = "GetSongBPM"  -> makeRequestGetSongBPM(apiKey, resp)
    [] client = "MusicBrainz" -> makeRequestMusicBrainz(resp)

\* the calls of fetch one makeRequest makes
FetchCalls(client, apiKey) ==
  IF client = "GetSongBPM" /\ Falsy(apiKey) THEN 0 ELSE 1

Statuses == {200, 201, 204, 302, 400, 401, 403, 404, 429, 500, 503}

RetryAfterHeaders == {Null, "30", "Wed, 21 Oct 2026 07:28:00 GMT"}

ServiceBody == JsObject([id |-> "abc", title |-> "Song"])

AllResponses ==
  {FetchThrows}
  \cup {Response(st, ra, body) : st \in Statuses, ra \in RetryAfterHeaders,
                                body \in {ServiceBody, Undecodable}}

\* fileConfig.GETBPM_API_KEY
ApiKeys == {Undefined, "", "key-1"}

\* one request function is called once
ClientCall ==
  /\ call = NoCall
  /\ \E client \in Clients, apiKey \in ApiKeys, resp \in AllResponses :
       call' = [fn |-> "makeRequest", client |-> client, apiKey |-> apiKey,
                resp |-> resp, res |-> makeRequest(client, apiKey, resp),
                fetchCalls |-> FetchCalls(client, apiKey)]
  /\ UNCHANGED <<sessionVars, fcArg, fcRes>>

NextClients == ClientCall

SpecClients == Init /\ [][NextClients]_vars

-----------------------------------------------------------------------------
(* The configuration file's lines, and startSession up to the first prompt *)

\* the boolean true, which no line of a configuration file yields
True == "<true>"

\* loadConfig on one line: [key, ...valueParts] = trimmed.split('='),
\* value = valueParts.join('=').trim(); stored when key and value are truthy
ConfigEntry(trimmed, eq) ==
  IF trimmed = "" \/ StartsWith(trimmed, "#") \/ eq = 1
     \/ Trim(SubSeq(trimmed, eq + 1, Len(trimmed))) = ""
  THEN [key |-> Undefined, value |-> Undefined]
  ELSE [key   |-> Trim(SubSeq(trimmed, 1, eq - 1)),
        value |-> Trim(SubSeq(trimmed, eq + 1, Len(trimmed)))]

ConfigLine(trimmed) == ConfigEntry(trimmed, FirstIn(trimmed, 1, {"="}))

\* fileConfig[key] after loadConfig read a file of the one line
loadConfig(line, key) ==
  IF ConfigLine(Trim(line)).key = key THEN ConfigLine(Trim(line)).value
  ELSE Undefined

AlwaysCleanLines ==
  { "", "# ALWAYS_CLEAN=true", "ALWAYS_CLEAN=", "ALWAYS_CLEAN=true",
    "ALWAYS_CLEAN = true", "ALWAYS_CLEAN=TRUE", "ALWAYS_CLEAN=false",
    "ALWAYS_CLEAN=1", "VERBOSE=true" }

\* the directories a session may find under dist/ when it starts
StartDirs ==
  {{}} \cup {{"dist"} \cup sub : sub \in SUBSET {"dist/json", "dist/logs", "dist/tracks"}}

\* output files of earlier sessions
StaleFiles(ds) ==
  {f \in {"dist/json/old.json", "dist/logs/old.log", "dist/tracks/old.txt"} :
     \E d \in ds : StartsWith(f, d \o "/")}

\* fileConfig.ALWAYS_CLEAN && fileConfig.ALWAYS_CLEAN === true
AlwaysClean(value) == ~Falsy(value) /\ value = True

\* startSession is called
StartSession ==
  /\ call = NoCall
  /\ \E line \in AlwaysCleanLines, ds \in StartDirs, rm \in {"ok", "fail"} :
       call' = [fn |-> "startSession", at |-> "clean", line |-> line,
                alwaysClean |-> loadConfig(line, "ALWAYS_CLEAN"),
                st |-> [Current EXCEPT !.dirs = ds, !.logExists = FALSE,
                                       !.logContent = <<>>],
                files |-> StaleFiles(ds), rm |-> rm, done |-> <<>>, out |-> <<>>]
  /\ UNCHANGED <<sessionVars, fcArg, fcRes>>

\* the ALWAYS_CLEAN check and handleClean
StartClean ==
  /\ call.fn = "startSession" /\ call.at = "clean"
  /\ IF AlwaysClean(call.alwaysClean)
     THEN \E r \in {handleClean(call.st, call.rm)} :
            call' = [call EXCEPT !.st = r.st,
                                 !.files = IF r.kind = "cleaned" THEN {} ELSE @,
                                 !.done = Append(@, "clean"),
                                 !.out = <<"info:ALWAYS_CLEAN is enabled, cleaning dist folder and logs...">> \o r.out,
                                 !.at = IF r.ret = "exit1" THEN "exited" ELSE "ensure"]
     ELSE call' = [call EXCEPT !.at = "ensure"]
  /\ UNCHANGED <<sessionVars, fcArg, fcRes>>

\* ensureDistDir
StartEnsure ==
  /\ call.fn = "startSession" /\ call.at = "ensure"
  /\ call' = [call EXCEPT !.st.dirs = @ \cup {"dist", "dist/json", "dist/logs"},
                          !.done = Append(@, "ensureDistDir"),
                          !.at = "initLog"]
  /\ UNCHANGED <<sessionVars, fcArg, fcRes>>

\* initLog and the two start entries; the first prompt follows
StartInitLog ==
  /\ call.fn = "startSession" /\ call.at = "initLog"
  /\ call' = [call EXCEPT
                !.st = WriteLog(WriteLog(
                         [@ EXCEPT !.dirs = @ \cup {"dist", "dist/logs"},
                                   !.logExists = TRUE,
                                   !.logContent = <<LogHeader>>],
                         "Session started"), "Token: not configured"),
                !.done = Append(@, "initLog"),
                !.at = "prompt"]
  /\ UNCHANGED <<sessionVars, fcArg, fcRes>>

NextStart == StartSession \/ StartClean \/ StartEnsure \/ StartInitLog

SpecStart == Init /\ [][NextStart]_vars

-----------------------------------------------------------------------------
(* The tracks command's handler called directly *)

TracksArgs ==
  { <<>>, <<"123">>, <<"00123">>, <<HugeDigits>>, <<"12abc">>, <<"abc">>, <<"master">>, <<"-5">>,
    <<"master", "123">>, <<"MASTER", "123">>, <<"Release", "456">>,
    <<"release", "abc">>, <<"artist", "123">>, <<"album", "123">>,
    <<"123", "release">>, <<"12abc", "release">>, <<"master", "123", "extra">> }

\* the state a handler may find: the session's start state, or that state
\* after the clean command removed dist/
HandlerStates ==
  { Current,
    [Current EXCEPT !.dirs = {}, !.logExists = FALSE, !.logContent = <<>>] }

TracksCall ==
  /\ call = NoCall
  /\ \E args \in TracksArgs, tracksType \in {"master", "release"},
        api \in ApiOutcomes, st \in HandlerStates :
       call' = [fn |-> "tracks", args |-> args, defaultType |-> tracksType,
                api |-> api, dirs |-> st.dirs,
                parsed |-> parseTracksArgs(args, tracksType),
                res |-> tracksHandler(args, [st EXCEPT !.flags.tracks_type = tracksType], api)]
  /\ UNCHANGED <<sessionVars, fcArg, fcRes>>

NextTracks == TracksCall

SpecTracks == Init /\ [][NextTracks]_vars

-----------------------------------------------------------------------------
(* The search command's handler called directly *)

SearchArgs == {<<"Daft Punk">>, <<"Daft", "Punk">>, <<"x">>}

\* the per_page values a session can hold: an integer, or Infinity after a
\* set with a run of more than 309 digits
PerPages == {Int32(5), Int32(25), ParseInt("1" \o Repeat("0", 21)), ParseInt(HugeDigits)}

SearchCall ==
  /\ call = NoCall
  /\ \E args \in SearchArgs, type \in {Null, "artist", "master"},
        perPage \in PerPages, api \in ApiOutcomes, st \in HandlerStates :
       call' = [fn |-> "search", args |-> args, type |-> type, perPage |-> perPage,
                api |-> api, dirs |-> st.dirs,
                res |-> searchHandler(args, [st EXCEPT !.flags.type = type,
                                                       !.flags.per_page = perPage], api)]
  /\ UNCHANGED <<sessionVars, fcArg, fcRes>>

NextSearch == SearchCall

SpecSearch == Init /\ [][NextSearch]_vars

-----------------------------------------------------------------------------
(* The MusicBrainz gate with two callers whose requests overlap: each call  *)
(* of makeRequest runs respectRateLimit up to its await, and goes on when   *)
(* its timer fires.                                                         *)

Callers == {"first", "second"}

\* how long before StartTime the last earlier request was issued (0: none,
\* lastRequestTime is its initial 0)
EarlierRequests == {0, 200, 700, 1500}

\* the steps in which time passes
Advances == {50, 200, 1100}

GateHorizon == StartTime + 3 * MIN_REQUEST_INTERVAL

\* the module after an earlier request; two callers are about to call
GateStart ==
  /\ call = NoCall
  /\ \E ago \in EarlierRequests :
       call' = [fn |-> "respectRateLimit", now |-> StartTime,
                lastRequestTime |-> IF ago = 0 THEN 0 ELSE StartTime - ago,
                pc |-> [c \in Callers |-> "idle"],
                wakeAt |-> [c \in Callers |-> 0],
                readTime |-> [c \in Callers |-> 0],
                issuedAt |-> [c \in Callers |-> 0]]
  /\ UNCHANGED <<sessionVars, fcArg, fcRes>>

\* a caller calls makeRequest: respectRateLimit reads lastRequestTime and
\* either sets its timer or stores the time, and fetch is called at once
GateEnter ==
  /\ call.fn = "respectRateLimit"
  /\ \E c \in Callers :
       /\ call.pc[c] = "idle"
       /\ IF WaitTime(call.now, call.lastRequestTime) > 0
          THEN call' = [call EXCEPT !.pc[c] = "waiting",
                                    !.readTime[c] = call.lastRequestTime,
                                    !.wakeAt[c] = call.now
                                      + WaitTime(call.now, call.lastRequestTime)]
          ELSE call' = [call EXCEPT !.pc[c] = "issued",
                                    !.readTime[c] = call.lastRequestTime,
                                    !.lastRequestTime = call.now,
                                    !.issuedAt[c] = call.now]
  /\ UNCHANGED <<sessionVars, fcArg, fcRes>>

\* time passes; a timer fires at most 50 ms late
GatePasses ==
  /\ call.fn = "respectRateLimit"
  /\ \E c \in Callers : call.pc[c] # "issued"
  /\ \E d \in Advances :
       /\ call.now + d <= GateHorizon
       /\ \A c \in Callers :
            call.pc[c] = "waiting" => call.now + d <= call.wakeAt[c] + 50
       /\ call' = [call EXCEPT !.now = call.now + d]
  /\ UNCHANGED <<sessionVars, fcArg, fcRes>>

\* a caller's timer fired: respectRateLimit stores the time and fetch is
\* called
GateWakes ==
  /\ call.fn = "respectRateLimit"
  /\ \E c \in Callers :
       /\ call.pc[c] = "waiting"
       /\ call.now >= call.wakeAt[c]
       /\ call' = [call EXCEPT !.pc[c] = "issued",
                               !.lastRequestTime = call.now,
                               !.issuedAt[c] = call.now]
  /\ UNCHANGED <<sessionVars, fcArg, fcRes>>

NextGate == GateStart \/ GateEnter \/ GatePasses \/ GateWakes

SpecGate == Init /\ [][NextGate]_vars

-----------------------------------------------------------------------------
(* The non-interactive search runner *)

\* parseInt(options.limit, 10) || 5
LimitOrDefault(val) == IF IsNaN(val) \/ (val.k = "int" /\ val.v = 0) THEN Int32(5) ELSE val

\* the flags runSearch builds from its options
runSearchFlags(options) ==
  [type     |-> IF Falsy(options.type) THEN Null ELSE options.type,
   per_page |-> LimitOrDefault(ParseInt(options.limit)),
   verbose  |-> options.verbose]

\* the values of --limit (Undefined: the option is absent)
Limits == {Undefined, "", "abc", "0", "-0", "-3", "10", "10abc", "2.5", HugeDigits}

\* runSearch(query, options): the flags, ensureDistDir, initLog, handleSearch
RunSearch ==
  /\ call = NoCall
  /\ \E limit \in Limits, type \in {Undefined, "master"}, verbose \in BOOLEAN,
        api \in ApiOutcomes, ds \in StartDirs :
       \E flags \in {runSearchFlags([limit |-> limit, type |-> type, verbose |-> verbose])} :
         call' = [fn |-> "runSearch", limit |-> limit, flags |-> flags, api |-> api,
                  res |-> handleSearch(<<"Bonobo">>,
                                       [flags |-> flags,
                                        dirs |-> ds \cup {"dist", "dist/json", "dist/logs"},
                                        logExists |-> TRUE, logContent |-> <<LogHeader>>,
                                        wrote |-> <<>>],
                                       api)]
  /\ UNCHANGED <<sessionVars, fcArg, fcRes>>

NextRun == RunSearch

SpecRun == Init /\ [][NextRun]_vars

-----------------------------------------------------------------------------
(* The verbose flag: seeded from the configuration file, and set by hand *)

VerboseValues ==
  {"true", "false", "on", "off", "TRUE", "On", "False", "OFF", "1", "0", "yes", "no"}

\* the lines of a configuration file that name VERBOSE, or do not
VerboseLines ==
  {"", "VERBOSE", "VERBOSE="}
  \cup {"VERBOSE=" \o v : v \in VerboseValues}
  \cup {"VERBOSE = " \o v : v \in VerboseValues}
  \cup {"  VERBOSE=" \o v \o "  " : v \in VerboseValues}
  \cup {"# VERBOSE=" \o v : v \in VerboseValues}
  \cup {"verbose=" \o v : v \in VerboseValues}

\* a session is created from a configuration file of one line, and
\* 'set verbose <value>' is run in a session whose verbose flag is off
SeedVerbose ==
  /\ call = NoCall
  /\ \E line \in VerboseLines :
       \E value \in {loadConfig(line, "VERBOSE")} :
         call' = [fn |-> "createSessionFlags", line |-> line, value |-> value,
                  seeded |-> createSessionFlags(
                               Config(value, Undefined, Undefined, Undefined,
                                      Undefined, Undefined)).verbose,
                  afterSet |-> handleSet(IF value = Undefined THEN <<"verbose">>
                                         ELSE <<"verbose", value>>,
                                         [Current EXCEPT !.flags.verbose = FALSE]
                                        ).st.flags.verbose]
  /\ UNCHANGED <<sessionVars, fcArg, fcRes>>

NextSeed == SeedVerbose

SpecSeed == Init /\ [][NextSeed]_vars

-----------------------------------------------------------------------------
(* Properties *)

IsBlank(input) == \A i \in 1..Len(input) : IsSpace(Chr(input, i))

\* the last transition was a dispatch of a typed line
Dispatched == last.ret \in {"true", "false", "throw", "exit1"}

IsRegistered(token) ==
  \E i \in 1..Len(commandList) :
    commandList[i].name = token \/ Includes(commandList[i].aliases, token)

IsPrefix(a, b) == Len(a) <= Len(b) /\ SubSeq(b, 1, Len(a)) = a

TypedValid(key, x) ==
  CASE key = "type"          -> (x = Null \/ Includes(VALID_TYPES, x)) /\ Validate(key, x)
    [] key = "per_page"      -> x.k \in {"int", "big"} /\ x.v > 0
                                /\ Validate(key, NumToString(x))
    [] key = "verbose"       -> x \in BOOLEAN
    [] key = "tracks_type"   -> Includes(VALID_TRACKS_TYPES, x) /\ Validate(key, x)
    [] key = "tracks_output" -> Includes(VALID_OUTPUT_FORMATS, x) /\ Validate(key, x)

\* C1: in every state of a session, every Session Flags field holds a value
\* its own schema validator accepts: type is null or one of the four types,
\* per_page a positive integer, verbose a boolean, tracks_type master or
\* release, tracks_output one of the four formats.
C1_FlagsAlwaysValid ==
  \A i \in 1..Len(SchemaKeys) : TypedValid(SchemaKeys[i], sessionFlags[SchemaKeys[i]])

\* C2: when handleSet reports an error (invalid value, unknown option, missing
\* value) the five flags are unchanged, updatePrompt is not called and the
\* only entry the dispatch wrote is the dispatcher's "Command:" entry; a
\* "Settings updated" entry is written only by a change that succeeded, and
\* it records the flags as they are after the change.
C2_RejectedSetHasNoEffect ==
  /\ (last.handler = "set" /\ last.kind \in {"invalid", "unknownOption", "missingValue"})
       => /\ sessionFlags = last.flagsBefore
          /\ last.promptCalls = 0
          /\ last.wrote = <<"Command: " \o Trim(last.input)>>
          /\ logContent = last.logBefore \o last.wrote
          /\ last.ret = "true"
  /\ \A i \in 1..Len(last.wrote) :
       StartsWith(last.wrote[i], "Settings updated")
         => /\ last.kind = "changed"
            /\ last.handler \in {"set", "settings"}
            /\ last.wrote[i] = "Settings updated: " \o FlagsJson(sessionFlags)

C2_Witness ==
  /\ last.handler = "set"
  /\ last.kind = "invalid"
  /\ last.input = "set type bogus"
  /\ sessionFlags.type = "artist"

\* C3: an exception raised in a dispatch cycle never ends the session: the
\* loop reports it, writes an "Error: ..." entry to the log and prompts again.
C3_SessionSurvivesExceptions ==
  last.ret \in {"throw", "exit1"}
    => /\ pc = "prompt"
       /\ Includes(console, "error:" \o last.err)
       /\ logContent # <<>>
       /\ logContent[Len(logContent)] = "Error: " \o last.err

\* C4: executeCommand returns false exactly when the first token resolves to
\* the exit command, and true for every other line whose handler, if one
\* runs, completes.
C4_FalseIffExit ==
  Dispatched =>
    LET isExit == last.command # "" /\ findCommand(last.command).name = "exit"
        handlerFailed == last.handler # "none" /\ last.ret \in {"throw", "exit1"}
    IN  /\ isExit => last.ret = "false"
        /\ last.ret = "false" => isExit
        /\ (~isExit /\ ~handlerFailed) => last.ret = "true"

\* C5: the loop ends only because the dispatcher returned false or the prompt
\* was interrupted, both with exit code 0, the interrupt after "Session ended
\* by user" was written to the log; anything else is followed by a prompt.
C5_EndsOnlyByExitOrInterrupt ==
  /\ pc # "prompt" => /\ pc = "exited"
                      /\ exitCode = 0
                      /\ last.ret \in {"false", "interrupt"}
  /\ last.ret = "interrupt"
       => /\ logContent # <<>>
          /\ logContent[Len(logContent)] = "Session ended by user (Ctrl+C)"
  /\ last.ret \in {"true", "throw", "exit1"} => pc = "prompt"

\* C6: a command given fewer arguments than its minArgs is reported with
\* "Missing arguments" and its usage string; executeCommand returns true, no
\* handler runs, no API call is made and the flags are unchanged.
C6_MinArgsGate ==
  (Dispatched /\ last.command # ""
     /\ Len(last.args) < findCommand(last.command).minArgs)
    => /\ Includes(console, "error:Missing arguments")
       /\ Includes(console, "info:Usage: " \o findCommand(last.command).usage)
       /\ last.ret = "true"
       /\ last.handler = "none"
       /\ last.apiCalls = 0
       /\ sessionFlags = last.flagsBefore

\* C7: a first token that is neither a registered name nor an alias is
\* reported as "Unknown command: <token>" with the help hint; no handler
\* runs, the flags are unchanged and executeCommand returns true.
C7_UnknownCommand ==
  (Dispatched /\ last.command # "" /\ ~IsRegistered(last.command))
    => /\ Includes(console, "error:Unknown command: " \o last.command)
       /\ Includes(console, "info:Type 'help' for available commands.")
       /\ last.ret = "true"
       /\ last.handler = "none"
       /\ last.kind = "unknown"
       /\ sessionFlags = last.flagsBefore

\* C8: for an empty or whitespace-only line the tokenizer yields the empty
\* command and no arguments, and executeCommand returns true without writing
\* to the log, printing, running a handler or changing the flags.
C8_BlankLineNoEffect ==
  (Dispatched /\ IsBlank(last.input))
    => /\ last.command = ""
       /\ last.args = <<>>
       /\ last.ret = "true"
       /\ last.wrote = <<>>
       /\ logContent = last.logBefore
       /\ console = <<>>
       /\ last.handler = "none"
       /\ sessionFlags = last.flagsBefore
       /\ dirs = last.dirsBefore
       /\ pc = "prompt"

C8_Witness ==
  /\ Dispatched
  /\ last.input = "   "
  /\ steps = 2
  /\ Len(logContent) > 3

\* C9: the log is append-only and complete for commands: every non-empty
\* line dispatched gets a "Command: <trimmed line>" entry appended, and every
\* earlier entry is still in the file, unaltered and in order.
C9_LogAppendOnlyComplete ==
  /\ IsPrefix(last.logBefore, logContent)
  /\ (Dispatched /\ ~IsBlank(last.input))
       => /\ Len(logContent) > Len(last.logBefore)
          /\ logContent[Len(last.logBefore) + 1] = "Command: " \o Trim(last.input)

\* C10: findCommand resolves every letter-case variant of a name or alias to
\* the command it resolves the lower-case form to, and returns null for the
\* empty string and for every token that is neither a name nor an alias.
C10_CaseInsensitiveResolution ==
  /\ fcRes = findCommand(ToLowerCase(fcArg))
  /\ IsRegistered(ToLowerCase(fcArg))
       => \/ fcRes.name = ToLowerCase(fcArg)
          \/ Includes(fcRes.aliases, ToLowerCase(fcArg))
  /\ ~IsRegistered(ToLowerCase(fcArg)) => fcRes = NoCommand

\* the names by which command i of the list can be typed
KeysOf(i) ==
  {commandList[i].name}
  \cup {commandList[i].aliases[k] : k \in 1..Len(commandList[i].aliases)}

\* C11: no name or alias of a command equals a name or alias of another
\* command, and findCommand returns for every token the same command under
\* every ordering of the command list
C11_UniqueNamespace ==
  /\ \A i, j \in 1..Len(commandList) : i # j => KeysOf(i) \cap KeysOf(j) = {}
  /\ call.fn = "findCommand" => call.res = findCommand(call.token)

\* exit's alias resolved with exit first and search last in the list
C11_Witness ==
  /\ call.fn = "findCommand"
  /\ call.order[1] = 7 /\ call.order[7] = 1
  /\ call.token = "Q"
  /\ call.res.name = "exit"

HasQuote(s) == \E i \in 1..Len(s) : Chr(s, i) = Quote

Contains(s, sub) ==
  \E i \in 1..(Len(s) - Len(sub) + 1) : SubSeq(s, i, i + Len(sub) - 1) = sub

\* the contents of the double-quoted spans of s from index i on, each opening
\* quote paired with the next quote
RECURSIVE QuotedSpans(_, _)
QuotedSpans(s, i) ==
  IF NextQuote(s, i) = 0 \/ NextQuote(s, NextQuote(s, i) + 1) = 0 THEN {}
  ELSE {SubSeq(s, NextQuote(s, i) + 1, NextQuote(s, NextQuote(s, i) + 1) - 1)}
       \cup QuotedSpans(s, NextQuote(s, NextQuote(s, i) + 1) + 1)

\* the tokens parseInput returned, the command first
ReturnedTokens(r) == (IF r.command = "" THEN <<>> ELSE <<r.command>>) \o r.args

\* C12: every double-quoted span of the line is part of one returned token,
\* unsplit, and no returned token (the first one included) contains a
\* double-quote character
C12_QuotedSpansStripped ==
  call.fn = "parseInput" =>
    /\ \A span \in QuotedSpans(Trim(call.input), 1) :
         \E k \in 1..Len(ReturnedTokens(call.res)) :
           Contains(ToLowerCase(ReturnedTokens(call.res)[k]), ToLowerCase(span))
    /\ \A k \in 1..Len(ReturnedTokens(call.res)) :
         ~HasQuote(ReturnedTokens(call.res)[k])

\* s without its double-quote characters
RECURSIVE Dequote(_)
Dequote(s) ==
  IF s = "" THEN ""
  ELSE (IF Chr(s, 1) = Quote THEN "" ELSE Chr(s, 1)) \o Dequote(SubSeq(s, 2, Len(s)))

\* the end of the whitespace-separated word that starts at i: white space
\* inside a closed double-quoted span does not end it
RECURSIVE FieldEnd(_, _)
FieldEnd(s, i) ==
  IF i > Len(s) \/ IsSpace(Chr(s, i)) THEN i
  ELSE IF Chr(s, i) = Quote /\ NextQuote(s, i + 1) # 0
  THEN FieldEnd(s, NextQuote(s, i + 1) + 1)
  ELSE FieldEnd(s, i + 1)

\* the whitespace-separated words of s from index i on
RECURSIVE Fields(_, _)
Fields(s, i) ==
  IF i > Len(s) THEN <<>>
  ELSE IF IsSpace(Chr(s, i)) THEN Fields(s, i + 1)
  ELSE <<SubSeq(s, i, FieldEnd(s, i) - 1)>> \o Fields(s, FieldEnd(s, i))

\* C13: for a line that is not blank the command is the first
\* whitespace-separated word in lower case and args are the other words in
\* their order and letter case, one token per word (double-quote characters
\* left aside: they are C12's)
C13_TokenOrderAndCase ==
  (call.fn = "parseInput" /\ Trim(call.input) # "") =>
    /\ Dequote(call.res.command) = ToLowerCase(Dequote(Fields(Trim(call.input), 1)[1]))
    /\ Len(call.res.args) = Len(Fields(Trim(call.input), 1)) - 1
    /\ \A k \in 1..Len(call.res.args) :
         k + 1 <= Len(Fields(Trim(call.input), 1))
           => Dequote(call.res.args[k]) = Dequote(Fields(Trim(call.input), 1)[k + 1])

\* the last line typed was "set verbose v" for some value v
SetVerboseTyped ==
  /\ Dispatched
  /\ last.command = "set"
  /\ Len(last.args) >= 2
  /\ ToLowerCase(last.args[1]) = "verbose"

\* C14: "set verbose v" is never rejected: it sets verbose to true exactly
\* when v in lower case is on or true, reports the new value as a success,
\* and the settings display then shows on, respectively off
C14_VerboseAlwaysValid ==
  SetVerboseTyped =>
    /\ last.kind = "changed"
    /\ sessionFlags.verbose = (ToLowerCase(last.args[2]) \in {"on", "true"})
    /\ Includes(console, "success:Verbose Mode: "
                          \o (IF sessionFlags.verbose THEN "on" ELSE "off"))
    /\ Includes(showSettings(sessionFlags),
                "plain:Verbose Mode "
                \o (IF ToLowerCase(last.args[2]) \in {"on", "true"} THEN "on" ELSE "off"))

\* the same with the log directory in place when the line is typed
C14_HoldsWhileLogWritable ==
  (SetVerboseTyped /\ "dist/logs" \in last.dirsBefore) => C14_VerboseAlwaysValid

\* the values a setting enumerates
Enumerated(key) ==
  CASE key = "type"          -> {"artist", "release", "master", "label"}
    [] key = "tracks_type"   -> {"master", "release"}
    [] key = "tracks_output" -> {"human", "csv", "pipe", "markdown"}
    [] OTHER                 -> {}

\* the strings that unset a setting
Unsetting(key) == IF key = "type" THEN {"none", "all", ""} ELSE {}

\* C15: for type, tracks_type and tracks_output validate(s) is true exactly
\* for the letter-case variants of an enumerated value (for type also of
\* none, all and the empty string), and transform maps an accepted variant
\* to the lower-case value, or to unset for none, all and the empty string
C15_EnumValidatorsIgnoreCase ==
  (call.fn = "schema" /\ call.key \in {"type", "tracks_type", "tracks_output"}) =>
    /\ call.valid = (ToLowerCase(call.v) \in Enumerated(call.key) \cup Unsetting(call.key))
    /\ ToLowerCase(call.v) \in Enumerated(call.key) => call.typed = ToLowerCase(call.v)
    /\ ToLowerCase(call.v) \in Unsetting(call.key) => call.typed = Null

\* the digits of the integer that leads s after white space and a sign,
\* without leading zeros ("" when no digit leads s or the integer is 0)
LeadingDigits(s) ==
  StripZeros(SubSeq(
    IF TrimStart(s) # "" /\ Chr(TrimStart(s), 1) \in {"-", "+"}
    THEN SubSeq(TrimStart(s), 2, Len(TrimStart(s))) ELSE TrimStart(s),
    1,
    DigitRun(IF TrimStart(s) # "" /\ Chr(TrimStart(s), 1) \in {"-", "+"}
             THEN SubSeq(TrimStart(s), 2, Len(TrimStart(s))) ELSE TrimStart(s))))

\* s leads with a positive integer
LeadsPositive(s) ==
  LeadingDigits(s) # "" /\ ~(TrimStart(s) # "" /\ Chr(TrimStart(s), 1) = "-")

\* the number x is the positive integer with the digits ds
IsInteger(x, ds) ==
  \/ x.k = "int" /\ x.v > 0 /\ NatToString(x.v) = ds
  \/ x.k = "big" /\ x.v > 0 /\ x.d = ds

\* C16: the per_page validator accepts exactly the strings that lead with a
\* positive integer, transform returns that integer, and getPerPage returns
\* it for an accepted PER_PAGE and 5 for a rejected one
C16_PerPageLeadingInteger ==
  (call.fn = "schema" /\ call.key = "per_page") =>
    /\ call.valid = LeadsPositive(call.v)
    /\ call.valid => IsInteger(call.typed, LeadingDigits(call.v))
    /\ call.perPage = (IF call.valid THEN call.typed ELSE Int32(5))

\* C17: for every raw string s that the per_page validator accepts,
\* format(transform(s)) is accepted too and transforms to transform(s)
C17_PerPageRoundTrip ==
  (call.fn = "schema" /\ call.key = "per_page" /\ call.valid) =>
    /\ Validate("per_page", call.shown)
    /\ Transform("per_page", call.shown) = call.typed

\* a request function returned a decoded body
Succeeded(x) == x.t = "object" /\ ~HasError(x)

\* C18: getTrackWithFeatures returns for every pair of outcomes and either
\* completion order; after a successful track request the result is the
\* track's fields and audioFeatures, the features body if that request
\* succeeded and null otherwise; after a failed track request the result is
\* that request's null or error marker
C18_CombinedFetch ==
  (call.fn = "getTrackWithFeatures" /\ call.result # Pending) =>
    /\ call.result.t \in {"null", "object"}
    /\ Succeeded(call.track) =>
         /\ call.result.t = "object"
         /\ DOMAIN call.result.o = DOMAIN call.track.o \cup {"audioFeatures"}
         /\ \A k \in DOMAIN call.track.o : call.result.o[k] = call.track.o[k]
         /\ call.result.o.audioFeatures =
              (IF Succeeded(call.features) THEN call.features ELSE JsNull)
    /\ ~Succeeded(call.track) => call.result = call.track

\* the track request succeeded after the features request was rate limited
C18_Witness ==
  /\ call.fn = "getTrackWithFeatures"
  /\ call.result # Pending
  /\ call.first = "features"
  /\ Succeeded(call.track)
  /\ HasError(call.features)
  /\ call.result.o.audioFeatures = JsNull

\* C19 as stated: each HTTP call is issued no earlier than the minimum
\* interval after the prior request completed
C19_IntervalAfterCompletion ==
  call.fn = "musicbrainz" =>
    \A k \in 2..Len(call.issued) :
      call.issued[k] >= call.completed[k - 1] + MIN_REQUEST_INTERVAL

\* C19 amended: each HTTP call is issued no earlier than the minimum
\* interval after the prior HTTP call was issued
C19_IntervalAfterIssue ==
  call.fn = "musicbrainz" =>
    \A k \in 2..Len(call.issued) :
      call.issued[k] >= call.issued[k - 1] + MIN_REQUEST_INTERVAL

\* three requests, the second one issued after a wait, exactly the interval
\* after the first was issued and less than the interval after it completed
C19_Witness ==
  /\ call.fn = "musicbrainz"
  /\ Len(call.issued) = 3
  /\ call.issued[2] = call.issued[1] + MIN_REQUEST_INTERVAL
  /\ call.issued[2] < call.completed[1] + MIN_REQUEST_INTERVAL

\* the discriminator a client gives a status, "" for a status it has none for
Discriminator(client, status) ==
  CASE client = "ReccoBeats" /\ status = 429  -> "rate_limited"
    [] client = "ReccoBeats" /\ status = 401  -> "auth_required"
    [] client = "GetSongBPM" /\ status = 429  -> "rate_limited"
    [] client = "GetSongBPM" /\ status = 401  -> "invalid_api_key"
    [] client = "MusicBrainz" /\ status = 503 -> "rate_limited"
    [] OTHER -> ""

\* the GetSongBPM key is missing
KeyMissing == call.client = "GetSongBPM" /\ call.apiKey \in {Undefined, ""}

\* C20: a request function never throws: it resolves to the decoded body for
\* a success status, to an error marker with the client's discriminator for
\* 429, 503 and 401 (with retryAfter for ReccoBeats' 429, and no_api_key
\* without any HTTP call for a missing GetSongBPM key), and to null for every
\* other failure
C20_ClientsNeverThrow ==
  call.fn = "makeRequest" =>
    /\ call.res.t \in {"null", "object"}
    /\ KeyMissing =>
         call.res = JsObject([error |-> "no_api_key"]) /\ call.fetchCalls = 0
    /\ ~KeyMissing =>
         /\ call.fetchCalls = 1
         /\ call.resp.kind = "throw" => call.res = JsNull
         /\ call.resp.kind = "response" =>
              IF Discriminator(call.client, call.resp.status) # ""
              THEN /\ HasError(call.res)
                   /\ call.res.o.error = Discriminator(call.client, call.resp.status)
                   /\ ("retryAfter" \in DOMAIN call.res.o)
                        = (call.client = "ReccoBeats" /\ call.resp.status = 429)
              ELSE IF Ok(call.resp) /\ call.resp.body # Undecodable
              THEN call.res = call.resp.body /\ Succeeded(call.res)
              ELSE call.res = JsNull

\* MusicBrainz answers 503 and the caller gets the rate-limit marker
C20_Witness ==
  /\ call.fn = "makeRequest"
  /\ call.client = "MusicBrainz"
  /\ call.resp.kind = "response" /\ call.resp.status = 503
  /\ call.res = JsObject([error |-> "rate_limited"])

\* the configuration file sets ALWAYS_CLEAN=true
AlwaysCleanConfigured == ToLowerCase(call.alwaysClean) = "true"

\* C21: with ALWAYS_CLEAN=true in the configuration file, the first prompt
\* is reached after the clean step, then ensureDistDir, then initLog, in
\* that order, with the output directories and the new log file in place
\* and nothing of an earlier session left
C21_AlwaysCleanAtStart ==
  (call.fn = "startSession" /\ call.at = "prompt" /\ AlwaysCleanConfigured) =>
    /\ call.done = <<"clean", "ensureDistDir", "initLog">>
    /\ call.files = {}
    /\ {"dist", "dist/json", "dist/logs"} \subseteq call.st.dirs
    /\ call.st.logExists

\* s begins, after white space and an optional sign, with a digit
Numeric(s) ==
  \E i \in 1..Len(s) :
    /\ IsDigit(Chr(s, i))
    /\ \E j \in 1..i :
         /\ \A k \in 1..(j - 1) : IsSpace(Chr(s, k))
         /\ j = i \/ (j = i - 1 /\ Chr(s, j) \in {"-", "+"})

\* the source type and the ID the tracks command's arguments stand for
\* (Undefined for a first argument that is no type)
ResolvedType(args, defaultType) ==
  IF Len(args) = 1 \/ Numeric(args[1]) THEN defaultType
  ELSE IF ToLowerCase(args[1]) \in {"master", "release"} THEN ToLowerCase(args[1])
  ELSE Undefined

ResolvedId(args) ==
  IF Len(args) = 1 \/ Numeric(args[1]) THEN args[1]
  ELSE IF ToLowerCase(args[1]) \in {"master", "release"} THEN args[2]
  ELSE Undefined

\* C22: a single argument or a first argument that parses as a number is the
\* ID, with the session's tracks_type as the source type; otherwise the first
\* argument is master or release in any letter case and the second is the
\* ID; any other first argument is reported as an invalid type without an
\* API call; a fetch calls exactly one of getMaster and getRelease, once,
\* and getMaster exactly when the resolved type is master
C22_TracksSourceResolution ==
  (call.fn = "tracks" /\ Len(call.args) >= 1) =>
    /\ call.parsed.type = ResolvedType(call.args, call.defaultType)
    /\ call.parsed.id = ResolvedId(call.args)
    /\ ResolvedType(call.args, call.defaultType) = Undefined =>
         /\ call.res.kind = "badArgs"
         /\ call.res.out = <<"error:Invalid type '" \o call.args[1] \o "'">>
         /\ call.res.apiCalls = 0
    /\ call.res.apiCalls \in {0, 1}
    /\ call.res.apiCalls = 1 =>
         /\ call.res.endpoint \in {"database.getMaster", "database.getRelease"}
         /\ (call.res.endpoint = "database.getMaster")
              = (ResolvedType(call.args, call.defaultType) = "master")
    /\ call.res.apiCalls = 0 => call.res.endpoint = ""

\* an explicit upper-case type overrides the session's release default and
\* getMaster is called
C22_Witness ==
  /\ call.fn = "tracks"
  /\ call.args = <<"MASTER", "123">>
  /\ call.defaultType = "release"
  /\ call.res.apiCalls = 1
  /\ call.res.endpoint = "database.getMaster"

\* what executeCommand printed in the last iteration: the console without
\* the two lines of the loop's catch block
ExecutedOutput ==
  IF last.ret = "throw" THEN SubSeq(console, 1, Len(console) - 2) ELSE console

\* C23: after every input line that holds a command the last output of
\* executeCommand is the trailing separator, whatever the outcome: unknown
\* command, missing arguments, a handler that returns, a handler that throws
C23_TrailingSeparator ==
  (last.ret \in {"true", "false", "throw", "exit1"} /\ last.command # "") =>
    /\ ExecutedOutput # <<>>
    /\ ExecutedOutput[Len(ExecutedOutput)] = Separator

\* the same for the lines whose handler returned true or false
C23_HoldsForReturningHandlers ==
  (last.ret \in {"true", "false"} /\ last.command # "") =>
    /\ console # <<>>
    /\ console[Len(console)] = Separator

\* the five fields of the Session Flags
FlagFields == {"type", "per_page", "tracks_type", "tracks_output", "verbose"}

\* C24: the session has one flags record with the same five fields; every
\* dispatch other than set and settings, and an interrupt, leaves all of
\* them unchanged, and a successful set changes only the field its option
\* names
C24_FlagsFrame ==
  /\ DOMAIN sessionFlags = FlagFields
  /\ last.handler \notin {"set", "settings"} => sessionFlags = last.flagsBefore
  /\ (last.handler = "set" /\ last.kind = "changed") =>
       \A k \in FlagFields :
         k # ToLowerCase(last.args[1]) => sessionFlags[k] = last.flagsBefore[k]

\* a set changed per_page in a session whose other flags are not the defaults
C24_Witness ==
  /\ last.handler = "set" /\ last.kind = "changed" /\ last.ret = "true"
  /\ ToLowerCase(last.args[1]) = "per_page"
  /\ sessionFlags.per_page # last.flagsBefore.per_page
  /\ sessionFlags.type = "artist"

\* handleTracks ran: parseTracksArgs reported no error
TracksHandled == call.fn = "tracks" /\ call.parsed.error = Undefined

\* the outcomes of handleTracks, by ID and by what the client returned
TracksOutcomes ==
  /\ ParseInt(call.parsed.id).k \notin {"int", "big"} =>
       /\ call.res.out = <<"error:Invalid ID. Please provide a numeric ID.">>
       /\ call.res.apiCalls = 0
       /\ call.res.jsonFiles = 0 /\ call.res.trackFiles = 0
  /\ ParseInt(call.parsed.id).k \in {"int", "big"} =>
       /\ call.api = "error" =>
            /\ Includes(call.res.out, "warn:Could not fetch")
            /\ call.res.jsonFiles = 0 /\ call.res.trackFiles = 0
       /\ call.api = "empty" =>
            call.res.jsonFiles = 1 /\ call.res.trackFiles = 0
       /\ call.api = "results" =>
            call.res.jsonFiles = 1 /\ call.res.trackFiles = 1
  /\ call.res.ret = "true"

\* C25: handleTracks reports an ID that is no integer without an API call or
\* a file; reports 'Could not fetch' without a file when the client returns
\* null; writes the JSON result alone for an empty tracklist, and one track
\* listing and one JSON result for a non-empty one; it never throws and the
\* tracks command returns true
C25_TracksOutput ==
  (TracksHandled /\ call.api # "malformed") => TracksOutcomes

\* the same while dist/logs exists and the ID is a finite number or none
C25_HoldsWhileLogWritable ==
  (TracksHandled /\ call.api # "malformed" /\ "dist/logs" \in call.dirs
     /\ ParseInt(call.parsed.id).k # "inf") => TracksOutcomes

\* searchDiscogs returned a list: the results of the answer, or the empty
\* list of its catch block
SearchReturned ==
  /\ call.fn = "search"
  /\ "dist/logs" \in call.dirs
  /\ call.api \in {"results", "empty", "error"}

\* C26: handleSearch writes a JSON file exactly when the search returned at
\* least one result: an empty list (also the one of a failed Discogs call)
\* gives the warning and no file, a non-empty list gives exactly one JSON
\* output whose params are the query, the type filter and the per_page
\* passed to the client
C26_SearchOutput ==
  SearchReturned =>
    /\ call.res.apiCalls = 1
    /\ call.api \in {"empty", "error"} =>
         /\ Includes(call.res.out, "warn:No results found :(")
         /\ call.res.jsonFiles = 0
    /\ call.api = "results" =>
         /\ call.res.jsonFiles = 1
         /\ call.res.saved.query = JsonString(call.res.sent.query)
         /\ call.res.saved.searchType = JsonString(call.res.sent.type)
         /\ call.res.saved.per_page = NumToString(call.res.sent.per_page)

\* the same for a finite per_page
C26_HoldsForFinitePerPage ==
  (SearchReturned /\ call.perPage.k # "inf") =>
    /\ call.res.jsonFiles = (IF call.api = "results" THEN 1 ELSE 0)
    /\ call.api = "results" =>
         call.res.saved.per_page = NumToString(call.res.sent.per_page)

\* the settings menu was left by Back or by an interrupt of one of its prompts
MenuCancelled == last.handler = "settings" /\ last.kind = "cancelled"

\* C27: leaving the settings menu by Back or by interrupting the picker or
\* the value prompt changes no Session Flags field and writes nothing to the
\* log beyond the dispatcher's command entry; the settings command returns
\* true and the session is at the next prompt
C27_CancelledMenuNoOp ==
  MenuCancelled =>
    /\ sessionFlags = last.flagsBefore
    /\ logContent = last.logBefore \o <<"Command: " \o Trim(last.input)>>
    /\ dirs = last.dirsBefore
    /\ last.ret = "true"
    /\ pc = "prompt"
    /\ exitCode = -1

\* the menu was cancelled in a session whose flags an earlier set had changed
C27_Witness ==
  /\ MenuCancelled
  /\ steps = 2
  /\ pc = "prompt"
  /\ \E i \in 1..Len(logContent) : StartsWith(logContent[i], "Settings updated: ")

\* both callers' HTTP calls were issued
BothIssued ==
  call.fn = "respectRateLimit" /\ \A c \in Callers : call.pc[c] = "issued"

\* both callers read lastRequestTime before either stored its own time
Overlapped ==
  BothIssued /\ call.readTime["first"] = call.readTime["second"]

\* C28: two MusicBrainz requests that both enter the gate before either
\* recorded its request time still have their HTTP calls issued at least
\* the minimum interval apart
C28_GateHoldsForOverlap ==
  Overlapped =>
    \/ call.issuedAt["first"] >= call.issuedAt["second"] + MIN_REQUEST_INTERVAL
    \/ call.issuedAt["second"] >= call.issuedAt["first"] + MIN_REQUEST_INTERVAL

\* callers that do not overlap are kept the interval apart
C28_HoldsWithoutOverlap ==
  (BothIssued /\ ~Overlapped) =>
    \/ call.issuedAt["first"] >= call.issuedAt["second"] + MIN_REQUEST_INTERVAL
    \/ call.issuedAt["second"] >= call.issuedAt["first"] + MIN_REQUEST_INTERVAL

\* the number x is a positive integer
PositiveInteger(x) == x.k \in {"int", "big"} /\ x.v > 0

\* C29: for every value of --limit the per_page that runSearch passes to
\* handleSearch, and handleSearch to the Discogs client, is a positive
\* integer, and it is 5 when the option is absent or unusable
C29_RunSearchPerPage ==
  call.fn = "runSearch" =>
    /\ PositiveInteger(call.flags.per_page)
    /\ call.res.sent.per_page = call.flags.per_page
    /\ ~LeadsPositive(call.limit) => call.flags.per_page = Int32(5)

\* the same for the limits that are absent, not numeric, zero, or lead with
\* a positive integer of at most 309 digits
C29_HoldsForOtherLimits ==
  (call.fn = "runSearch" /\ call.limit \notin {"-3", HugeDigits}) =>
    /\ PositiveInteger(call.flags.per_page)
    /\ call.res.sent.per_page = call.flags.per_page
    /\ ~LeadsPositive(call.limit) => call.flags.per_page = Int32(5)

\* C30: for every VERBOSE value of the configuration file the session's
\* initial verbose flag is true exactly when 'set verbose <value>' turns
\* verbose on, that is for on and true in any letter case, and false
\* otherwise, also for false, for off and for an absent VERBOSE
C30_VerboseSeedAgreesWithSet ==
  call.fn = "createSessionFlags" =>
    /\ call.seeded = call.afterSet
    /\ call.seeded = (ToLowerCase(call.value) \in {"on", "true"})

\* the quick-set rule itself is as stated
C30_SetRule ==
  call.fn = "createSessionFlags" =>
    call.afterSet = (ToLowerCase(call.value) \in {"on", "true"})

====
